---- MODULE Spec2Model ----
(***************************************************************************)
(* Model of gr::toy numeric text codec (include/gr/detail/toy_charconv.hh) *)
(* and of the template engine (include/gr/format.hh).                      *)
(*                                                                         *)
(* Characters are one-character strings, byte spans are sequences of       *)
(* characters, a pointer into a span is a 1-based index (the one-past-end  *)
(* pointer of a span s is Len(s) + 1).  Integer types are records          *)
(* [bits, signed]; every conversion to a type reduces modulo 2^bits.       *)
(***************************************************************************)
EXTENDS Integers, Sequences, FiniteSets, TLC

VARIABLES
  op,         \* which codec call the state records: "idle", "itoss", "sstoi",
              \* "roundtrip", "ftoss", "sstof", "split"
  itoss_in,   \* arguments of the recorded itoss call
  itoss_out,  \* what from_integer returned and wrote
  sstoi_in,   \* arguments of the recorded sstoi call
  sstoi_out,  \* what sstoi returned
  ftoss_in,   \* arguments of the recorded ftoss call
  ftoss_out,  \* what from_float returned and wrote
  sstof_in,   \* arguments of the recorded sstof call
  sstof_out,  \* what sstof returned and read
  split_in,   \* arguments of the recorded get_fp_parts call
  split_out,  \* what get_fp_parts returned
  pc,         \* format_to: "idle", "loop" (at the head of the while loop), "done", "error"
  fmt,        \* format_to: the template bytes
  fargs,      \* format_to: the arguments, in order
  ptr,        \* format_to: the cursor into the template
  out,        \* format_to: the bytes appended to the output sink
  auto_index, \* format_to: the automatic argument counter
  err,        \* format_to: the format_error thrown, "none" if none
  cmem,       \* two callers: the memory their buffers lie in, by address
  ccall,      \* two callers: the call of each thread
  cpc,        \* two callers: "idle", "running", "done", "lost" for each thread
  cpos,       \* two callers: how many stores each thread's call has made
  cres,       \* two callers: what each thread's call returned
  cacc        \* two callers: the accesses made, [t, a, wr]

ivars == <<op, itoss_in, itoss_out, sstoi_in, sstoi_out>>
flvars == <<ftoss_in, ftoss_out, sstof_in, sstof_out, split_in, split_out>>
fvars == <<pc, fmt, fargs, ptr, out, auto_index, err>>
cvars == <<cmem, ccall, cpc, cpos, cres, cacc>>
vars == <<op, itoss_in, itoss_out, sstoi_in, sstoi_out, ftoss_in, ftoss_out,
          sstof_in, sstof_out, split_in, split_out,
          pc, fmt, fargs, ptr, out, auto_index, err,
          cmem, ccall, cpc, cpos, cres, cacc>>

----------------------------------------------------------------------------
(* Bounds of the model *)

\* longest free-form text handed to sstoi
MaxLen == 3
\* largest of the deliberately small destination buffers handed to itoss
MaxBuf == 3
\* itoss is called with every value of magnitude up to MaxSmall (and the type's extremes)
MaxSmall == 17
\* longest template handed to format_to
MaxFmtLen == 5
\* size of the buffer each of two concurrent callers owns
ConcBuf == 4

----------------------------------------------------------------------------
(* Integer types and conversions between them *)

int8_t == [bits |-> 8, signed |-> TRUE]
uint8_t == [bits |-> 8, signed |-> FALSE]
int16_t == [bits |-> 16, signed |-> TRUE]
uint16_t == [bits |-> 16, signed |-> FALSE]
IntTypes == {int8_t, uint8_t, int16_t, uint16_t}

\* UnsignedType(-1): the largest value of the unsigned type of w bits
MaxU(w) == 2^w - 1
\* numeric_limits<T>::max() and ::min()
numeric_max(T) == IF T.signed THEN 2^(T.bits - 1) - 1 ELSE 2^T.bits - 1
numeric_min(T) == IF T.signed THEN -(2^(T.bits - 1)) ELSE 0
\* static_cast<unsigned_type>(x)
ToUnsigned(w, x) == x % (2^w)
\* static_cast<signed type of w bits>(x)
ToSigned(w, x) == LET m == x % (2^w) IN IF m >= 2^(w - 1) THEN m - 2^w ELSE m
\* integer_type(x)
ToType(T, x) == IF T.signed THEN ToSigned(T.bits, x) ELSE ToUnsigned(T.bits, x)

----------------------------------------------------------------------------
(* Digit tables *)

digits_lower ==
  <<"0","1","2","3","4","5","6","7","8","9","a","b","c","d","e","f","g","h",
    "i","j","k","l","m","n","o","p","q","r","s","t","u","v","w","x","y","z">>
digits_upper ==
  <<"0","1","2","3","4","5","6","7","8","9","A","B","C","D","E","F","G","H",
    "I","J","K","L","M","N","O","P","Q","R","S","T","U","V","W","X","Y","Z">>

\* two_digit_table + (r << 1): the two characters of r in 0..99
two_digit_table(r) == <<digits_lower[(r \div 10) + 1], digits_lower[(r % 10) + 1]>>

\* c2d_table[c]: 0..35 for an alphanumeric character, -1 for any other
char_to_digit(c) ==
  IF \E i \in 1..36 : digits_lower[i] = c
    THEN (CHOOSE i \in 1..36 : digits_lower[i] = c) - 1
  ELSE IF \E i \in 1..36 : digits_upper[i] = c
    THEN (CHOOSE i \in 1..36 : digits_upper[i] = c) - 1
  ELSE -1

\* `digit >= limit` with `unsigned digit = char_to_digit(c)`: the -1 of a
\* non-alphanumeric character converts to UINT_MAX, above every limit
digit_ge(d, limit) == d < 0 \/ d >= limit

----------------------------------------------------------------------------
(* Text to integer: the three digit loops *)

Max(a, b) == IF a > b THEN a ELSE b

\* the element of a one-element set: The({e(x) : x \in {v}}) is e(v), with
\* v computed once and named x
The(S) == CHOOSE x \in S : TRUE

\* Each returns [ptr, ec, result]: sstov_result plus the UnsignedType &result.
\* Two more fields observe the loop: `exact` is the largest outcome, before any
\* reduction modulo 2^w, of the shifts, multiplications and additions performed;
\* `held` is the magnitude at the moment the digit loop stopped.
stoi_pow2_base_u(IsOctal, s, first0, last, w, base) ==
  LET shift == IF IsOctal THEN 3 ELSE (IF base = 2 THEN 1 ELSE 4)
      max_value == MaxU(w)
      max_safe == MaxU(w) \div (2^shift)
      RECURSIVE loop(_, _, _)
      loop(first, result, exact) ==
        IF ~(first < last)
          THEN [ptr |-> first, ec |-> "none", result |-> result,
                exact |-> exact, held |-> result]
        ELSE LET digit == char_to_digit(s[first]) IN
          IF digit_ge(digit, base)
            THEN [ptr |-> first, ec |-> "none", result |-> result,
                  exact |-> exact, held |-> result]
          ELSE IF result > max_safe
            THEN [ptr |-> first, ec |-> "result_out_of_range", result |-> result,
                  exact |-> exact, held |-> result]
          ELSE LET new_result == (result * (2^shift)) % (2^w) IN
            IF new_result > max_value - digit
              THEN [ptr |-> first, ec |-> "result_out_of_range", result |-> result,
                    exact |-> Max(exact, result * (2^shift)), held |-> result]
            ELSE loop(first + 1, (new_result + digit) % (2^w),
                      Max(exact, Max(result * (2^shift), new_result + digit)))
      RECURSIVE skip(_)
      skip(first) ==
        IF first < last /\ ~digit_ge(char_to_digit(s[first]), 10)
          THEN skip(first + 1) ELSE first
  IN The({ [ptr |-> skip(r.ptr), ec |-> r.ec, result |-> r.result,
             exact |-> r.exact, held |-> r.held]
           : r \in {loop(first0, 0, 0)} })

stoi_base10_u(s, first0, last, w) ==
  LET max_value == MaxU(w)
      max_safe == MaxU(w) \div 10
      RECURSIVE loop(_, _, _)
      loop(first, result, exact) ==
        IF ~(first < last)
          THEN [ptr |-> first, ec |-> "none", result |-> result,
                exact |-> exact, held |-> result]
        ELSE LET digit == char_to_digit(s[first]) IN
          IF digit_ge(digit, 10)
            THEN [ptr |-> first, ec |-> "none", result |-> result,
                  exact |-> exact, held |-> result]
          ELSE IF result > max_safe
            THEN [ptr |-> first, ec |-> "result_out_of_range", result |-> result,
                  exact |-> exact, held |-> result]
          ELSE LET new_result == (result * 10) % (2^w) IN
            IF new_result > max_value - digit
              THEN [ptr |-> first, ec |-> "result_out_of_range", result |-> result,
                    exact |-> Max(exact, result * 10), held |-> result]
            ELSE loop(first + 1, (new_result + digit) % (2^w),
                      Max(exact, Max(result * 10, new_result + digit)))
      RECURSIVE skip(_)
      skip(first) ==
        IF first < last /\ ~digit_ge(char_to_digit(s[first]), 10)
          THEN skip(first + 1) ELSE first
  IN The({ [ptr |-> skip(r.ptr), ec |-> r.ec, result |-> r.result,
             exact |-> r.exact, held |-> r.held]
           : r \in {loop(first0, 0, 0)} })

\* stoi_alnum_u without the comparison against max_safe
stoi_alnum_u_unchecked(s, first0, last, w, base) ==
  LET max_value == MaxU(w)
      max_safe == MaxU(w) \div base
      RECURSIVE loop(_, _, _)
      loop(first, result, exact) ==
        IF ~(first < last)
          THEN [ptr |-> first, ec |-> "none", result |-> result,
                exact |-> exact, held |-> result]
        ELSE LET digit == char_to_digit(s[first]) IN
          IF digit_ge(digit, base)
            THEN [ptr |-> first, ec |-> "none", result |-> result,
                  exact |-> exact, held |-> result]
          ELSE LET new_result == (result * base) % (2^w) IN
            IF new_result > max_value - digit
              THEN [ptr |-> first, ec |-> "result_out_of_range", result |-> result,
                    exact |-> Max(exact, result * base), held |-> result]
            ELSE loop(first + 1, (new_result + digit) % (2^w),
                      Max(exact, Max(result * base, new_result + digit)))
      RECURSIVE skip(_)
      skip(first) ==
        IF first < last /\ ~digit_ge(char_to_digit(s[first]), base)
          THEN skip(first + 1) ELSE first
  IN The({ [ptr |-> skip(r.ptr), ec |-> r.ec, result |-> r.result,
             exact |-> r.exact, held |-> r.held]
           : r \in {loop(first0, 0, 0)} })

stoi_alnum_u(s, first0, last, w, base) ==
  LET max_value == MaxU(w)
      max_safe == MaxU(w) \div base
      RECURSIVE loop(_, _, _)
      loop(first, result, exact) ==
        IF ~(first < last)
          THEN [ptr |-> first, ec |-> "none", result |-> result,
                exact |-> exact, held |-> result]
        ELSE LET digit == char_to_digit(s[first]) IN
          IF digit_ge(digit, base)
            THEN [ptr |-> first, ec |-> "none", result |-> result,
                  exact |-> exact, held |-> result]
          ELSE IF result > max_safe
            THEN [ptr |-> first, ec |-> "result_out_of_range", result |-> result,
                  exact |-> exact, held |-> result]
          ELSE LET new_result == (result * base) % (2^w) IN
            IF new_result > max_value - digit
              THEN [ptr |-> first, ec |-> "result_out_of_range", result |-> result,
                    exact |-> Max(exact, result * base), held |-> result]
            ELSE loop(first + 1, (new_result + digit) % (2^w),
                      Max(exact, Max(result * base, new_result + digit)))
      RECURSIVE skip(_)
      skip(first) ==
        IF first < last /\ ~digit_ge(char_to_digit(s[first]), base)
          THEN skip(first + 1) ELSE first
  IN The({ [ptr |-> skip(r.ptr), ec |-> r.ec, result |-> r.result,
             exact |-> r.exact, held |-> r.held]
           : r \in {loop(first0, 0, 0)} })

----------------------------------------------------------------------------
(* Text to integer: sign, range check, sstoi *)

\* Reads *first; returns the sign and the advanced pointer.
get_sign_for_sstov(s, first) ==
  IF s[first] = "-" THEN [sign |-> -1, first |-> first + 1]
  ELSE IF s[first] = "+" THEN [sign |-> 1, first |-> first + 1]
  ELSE [sign |-> 1, first |-> first]

\* check_integer_overflow without the extra unit of magnitude for the minimum
check_integer_overflow_symmetric(str_sign, pre_result, T) ==
  IF T.signed THEN
    [value |-> IF str_sign = -1 THEN ToType(T, -ToType(T, pre_result))
               ELSE ToType(T, pre_result),
     ec |-> IF pre_result > numeric_max(T) THEN "result_out_of_range" ELSE "none"]
  ELSE
    [value |-> ToType(T, pre_result),
     ec |-> IF str_sign = -1 THEN "invalid_argument" ELSE "none"]

\* Returns [ec, value]: the error code and what value_out is left holding.
check_integer_overflow(str_sign, pre_result, T) ==
  IF T.signed THEN
    IF str_sign = -1 THEN
      [value |-> ToType(T, -ToType(T, pre_result)),
       ec |-> IF pre_result > numeric_max(T) + 1
                THEN "result_out_of_range" ELSE "none"]
    ELSE
      [value |-> ToType(T, pre_result),
       ec |-> IF pre_result > numeric_max(T)
                THEN "result_out_of_range" ELSE "none"]
  ELSE
    IF str_sign = -1 THEN [value |-> ToType(T, pre_result), ec |-> "invalid_argument"]
    ELSE [value |-> ToType(T, pre_result), ec |-> "none"]

\* (base & (base - 1)) == 0, for a base already known to lie in 2..36
is_pow2(base) == \E k \in 1..5 : base = 2^k

\* sstoi(first, last, value, base) on the span s = [first, last).
\* Returns [ptr, ec, value]; ptr = Len(s) + 1 is `last`.  pre_result is the
\* local of that name at the return; exact and held come from the digit loop.
sstoi(s, base, T) ==
  IF Len(s) = 0 \/ base < 2 \/ base > 36
    THEN [ptr |-> 1, ec |-> "invalid_argument", value |-> 0,
          pre_result |-> 0, exact |-> 0, held |-> 0]
  ELSE
    LET sg == get_sign_for_sstov(s, 1)
        last == Len(s) + 1
        status ==
          IF base = 10 THEN stoi_base10_u(s, sg.first, last, T.bits)
          ELSE IF is_pow2(base) THEN
            IF base = 2 THEN stoi_pow2_base_u(FALSE, s, sg.first, last, T.bits, base)
            ELSE IF base <= 8 THEN stoi_pow2_base_u(TRUE, s, sg.first, last, T.bits, base)
            ELSE stoi_pow2_base_u(FALSE, s, sg.first, last, T.bits, base)
          ELSE stoi_alnum_u(s, sg.first, last, T.bits, base)
    IN The({
         IF st.ec = "none"
           THEN The({ [ptr |-> st.ptr, ec |-> c.ec, value |-> c.value,
                       pre_result |-> st.result, exact |-> st.exact, held |-> st.held]
                      : c \in {check_integer_overflow(sg.sign, st.result, T)} })
           ELSE [ptr |-> st.ptr, ec |-> st.ec, value |-> ToType(T, st.result),
                 pre_result |-> st.result, exact |-> st.exact, held |-> st.held]
         : st \in {status} })

----------------------------------------------------------------------------
(* Integer to text: to_chars_helper::from_integer *)

\* digit = n % m, by mask for a power of two
smart_mod_u(n, m) == n % m
\* n / d, by shift for 2, 4, 8, 16, 32
smart_div_u(n, d) == n \div d

\* _prepare_integer_format_type picking the lowercase prefix whatever the flag
prepare_integer_format_type_lowercase(base, uppercase) ==
  IF base = 2 THEN [prefix |-> <<"0", "b">>, prefix_len |-> 2]
  ELSE IF base = 8 THEN [prefix |-> <<"0">>, prefix_len |-> 1]
  ELSE IF base = 16 THEN [prefix |-> <<"0", "x">>, prefix_len |-> 2]
  ELSE [prefix |-> <<>>, prefix_len |-> 0]

\* [prefix, prefix_len]; the empty prefix stands for nullptr
prepare_integer_format_type(base, uppercase) ==
  IF base = 2 THEN [prefix |-> IF uppercase THEN <<"0", "B">> ELSE <<"0", "b">>,
                    prefix_len |-> 2]
  ELSE IF base = 8 THEN [prefix |-> <<"0">>, prefix_len |-> 1]
  ELSE IF base = 16 THEN [prefix |-> IF uppercase THEN <<"0", "X">> ELSE <<"0", "x">>,
                          prefix_len |-> 2]
  ELSE [prefix |-> <<>>, prefix_len |-> 0]

\* `current` is the text already written at and after the cursor; every
\* `*--current = c` puts c in front of it.  No write is bounds-checked.
RECURSIVE convert_integer_u_base10(_, _)
convert_integer_u_base10(current, value) ==
  IF value >= 10000 THEN
    LET q == value \div 10000
        r == value % 10000
        r1 == r \div 100
        r2 == r % 100
    IN convert_integer_u_base10(two_digit_table(r1) \o two_digit_table(r2) \o current, q)
  ELSE IF value >= 100 THEN
    LET q == value \div 100
        r == value % 100
    IN convert_integer_u_base10(two_digit_table(r) \o current, q)
  ELSE IF value >= 10 THEN two_digit_table(value) \o current
  ELSE <<digits_lower[value + 1]>> \o current

convert_integer_u(current0, value0, base, uppercase) ==
  LET digits == IF uppercase THEN digits_upper ELSE digits_lower
      RECURSIVE loop(_, _)
      loop(current, value) ==
        IF value > 0
          THEN loop(<<digits[smart_mod_u(value, base) + 1]>> \o current,
                    smart_div_u(value, base))
          ELSE current
  IN IF base = 10 THEN convert_integer_u_base10(current0, value0)
     ELSE loop(current0, value0)

\* What one from_integer call on a buffer of n bytes does, executed line by
\* line.  Offsets are relative to buffer_ (end_ is n).  `written` is every
\* byte stored, lowest address first, so the lowest offset stored to is
\* n - Len(written); `null` tells {nullptr, 0} from {ptr_, end_ - ptr_}.
itoss_null(n, written) ==
  [null |-> TRUE, ptr |-> 0, size |-> 0, written |-> written,
   lo |-> n - Len(written), returned |-> TRUE]
itoss_span(n, written) ==
  [null |-> FALSE, ptr |-> n - Len(written), size |-> Len(written),
   written |-> written, lo |-> n - Len(written), returned |-> TRUE]

from_integer(value, base, uppercase, alternate, T, n) ==
  IF base < 2 \/ base > 36 THEN itoss_null(n, <<>>)
  ELSE
    LET pf == prepare_integer_format_type(base, uppercase) IN
    IF value = 0 THEN
      IF n <= 0 THEN itoss_null(n, <<>>)
      ELSE IF alternate /\ pf.prefix_len > 0 THEN
        IF (n - 1) < pf.prefix_len THEN itoss_null(n, <<"0">>)
        ELSE itoss_span(n, pf.prefix \o <<"0">>)
      ELSE itoss_span(n, <<"0">>)
    ELSE
      LET negative == T.signed /\ value < 0
          abs_value == IF negative THEN ToType(T, -value) ELSE value
          unsigned_value == ToUnsigned(T.bits, abs_value)
          digits == convert_integer_u(<<>>, unsigned_value, base, uppercase)
          room == n - Len(digits)
          \* the prefix loop stores a byte only while ptr_ > buffer_
          fits == IF room > 0 THEN (IF room < pf.prefix_len THEN room ELSE pf.prefix_len)
                  ELSE 0
          with_prefix ==
            IF alternate /\ pf.prefix_len > 0
              THEN SubSeq(pf.prefix, pf.prefix_len - fits + 1, pf.prefix_len) \o digits
              ELSE digits
      IN IF alternate /\ pf.prefix_len > 0 /\ fits < pf.prefix_len
           THEN itoss_null(n, with_prefix)
         ELSE IF negative THEN
           IF n - Len(with_prefix) > 0 THEN itoss_span(n, <<"-">> \o with_prefix)
           ELSE itoss_null(n, with_prefix)
         ELSE itoss_span(n, with_prefix)

\* itoss(out_buffer, buffer_size, value, base, uppercase, alternate).  A
\* store below out_buffer is undefined behaviour: the call may return what
\* the straight-line execution returns, or not return at all.
itoss(n, value, base, uppercase, alternate, T) ==
  LET r == from_integer(value, base, uppercase, alternate, T, n)
  IN IF r.lo < 0
       THEN {r, [r EXCEPT !.returned = FALSE]}
       ELSE {r}

----------------------------------------------------------------------------
(* The calls the model makes *)

\* the scratch size the callers of itoss use when they want room to spare
RoomyBuf == 32

Bases == 0..37
BufSizes == (0..MaxBuf) \cup {RoomyBuf}
SmallValues(T) == {v \in (-MaxSmall)..MaxSmall : numeric_min(T) <= v /\ v <= numeric_max(T)}
Landmarks(T) ==
  {v \in {36, 99, 100, 1234, 9999, 10000, -100, -1234, -10000,
          numeric_min(T), numeric_min(T) + 1, numeric_max(T) - 1, numeric_max(T)} :
     numeric_min(T) <= v /\ v <= numeric_max(T)}
ItossValues(T) == SmallValues(T) \cup Landmarks(T)

\* the positional numeral of a natural number m, most significant digit first
RECURSIVE Numeral(_, _, _)
Numeral(m, base, uppercase) ==
  LET d == <<(IF uppercase THEN digits_upper ELSE digits_lower)[(m % base) + 1]>>
  IN IF m < base THEN d ELSE Numeral(m \div base, base, uppercase) \o d
Decimal(m) == Numeral(m, 10, FALSE)

Alphabet == {"-", "+", " ", "0", "1", "9", "f"}
RECURSIVE TextsOfLen(_)
TextsOfLen(k) ==
  IF k = 0 THEN {<<>>}
  ELSE {<<c>> \o t : c \in Alphabet, t \in TextsOfLen(k - 1)}
FreeTexts == UNION {TextsOfLen(k) : k \in 0..MaxLen}

\* decimal numerals at and one unit beyond the bounds of T, bare and with a tail
EdgeNumerals(T) ==
  LET hi == numeric_max(T)
      lo == -numeric_min(T)
      bare == {Decimal(hi), Decimal(hi + 1), <<"+">> \o Decimal(hi),
               <<"-">> \o Decimal(lo), <<"-">> \o Decimal(lo + 1),
               <<"-">> \o Decimal(hi + 1), Decimal(hi) \o <<"9">>}
  IN bare \cup {b \o tail : b \in bare, tail \in {<<"9", " ">>, <<" ", "1">>, <<"f", "1">>}}
SstoiTexts(T, base) == FreeTexts \cup (IF base = 10 THEN EdgeNumerals(T) ELSE {})

NoItossIn == [T |-> int8_t, value |-> 0, base |-> 0, uppercase |-> FALSE,
              alternate |-> FALSE, n |-> 0]
NoItossOut == itoss_null(0, <<>>)
NoSstoiIn == [T |-> int8_t, text |-> <<>>, base |-> 0]
NoFtossIn ==
  [value |-> [neg |-> FALSE, m |-> 0, e |-> 0], format |-> "general", precision |-> 0,
   uppercase |-> FALSE, n |-> 0]
NoFtossOut ==
  [ptr |-> 0, size |-> 0, text |-> <<>>, hi |-> 0, stored |-> <<>>, returned |-> TRUE]
NoSstoiOut == [ptr |-> 0, ec |-> "none", value |-> 0,
               pre_result |-> 0, exact |-> 0, held |-> 0]
NoSstofIn == [text |-> <<>>, beyond |-> <<>>]
\* fp_traits<float> and fp_traits<double>: the widths of uint_type,
\* store_type and up_store_type, and the layout
fp_traits_float ==
  [uint_bits |-> 32, store_bits |-> 32, up_store_bits |-> 64, mantissa_bits |-> 23,
   exponent_bits |-> 8, exponent_bias |-> 127, max_shift_bits |-> 63]
fp_traits_double ==
  [uint_bits |-> 64, store_bits |-> 64, up_store_bits |-> 128, mantissa_bits |-> 52,
   exponent_bits |-> 11, exponent_bias |-> 1023, max_shift_bits |-> 127]

NoSplitIn == [traits |-> fp_traits_double, value |-> [c |-> 0, q |-> 0], precision |-> 0]
NoSplitOut == [integer_part |-> <<>>, fractional_part |-> <<>>, wrapped |-> FALSE]
\* two concurrent callers: the threads, where the buffer of each starts, and
\* the addresses of the memory the buffers lie in
Threads == {1, 2}
Base(t) == (t - 1) * ConcBuf
Addresses == (1 - ConcBuf)..(3 * ConcBuf)
NoCall == [kind |-> "none"]
NoResult == [kind |-> "none"]
NoSstofOut ==
  [ptr |-> 0, ec |-> "none", rd |-> 0, lookups |-> <<>>,
   value |-> [class |-> "finite", sign |-> 1, int_part |-> 0, frac_part |-> 0,
              frac_digits |-> 0, sign_e |-> 1, exponent |-> 0],
   returned |-> TRUE]

Init ==
  /\ op = "idle"
  /\ itoss_in = NoItossIn
  /\ itoss_out = NoItossOut
  /\ sstoi_in = NoSstoiIn
  /\ sstoi_out = NoSstoiOut
  /\ ftoss_in = NoFtossIn
  /\ ftoss_out = NoFtossOut
  /\ sstof_in = NoSstofIn
  /\ sstof_out = NoSstofOut
  /\ split_in = NoSplitIn
  /\ split_out = NoSplitOut
  /\ pc = "idle"
  /\ fmt = <<>>
  /\ fargs = <<>>
  /\ ptr = 1
  /\ out = <<>>
  /\ auto_index = 0
  /\ err = "none"
  /\ cmem = [a \in Addresses |-> ""]
  /\ ccall = [t \in Threads |-> NoCall]
  /\ cpc = [t \in Threads |-> "idle"]
  /\ cpos = [t \in Threads |-> 0]
  /\ cres = [t \in Threads |-> NoResult]
  /\ cacc = {}

\* a caller encodes an integer into its own buffer
Itoss ==
  /\ op = "idle"
  /\ \E T \in IntTypes, base \in Bases, uppercase \in BOOLEAN, alternate \in BOOLEAN,
        n \in BufSizes :
       \E value \in ItossValues(T) :
         /\ itoss_in' = [T |-> T, value |-> value, base |-> base,
                         uppercase |-> uppercase, alternate |-> alternate, n |-> n]
         /\ itoss_out' \in itoss(n, value, base, uppercase, alternate, T)
  /\ op' = "itoss"
  /\ UNCHANGED <<sstoi_in, sstoi_out>>
  /\ UNCHANGED flvars
  /\ UNCHANGED fvars
  /\ UNCHANGED cvars

\* a caller decodes a text of its own
Sstoi ==
  /\ op = "idle"
  /\ \E T \in IntTypes, base \in Bases :
       \E text \in SstoiTexts(T, base) :
         /\ sstoi_in' = [T |-> T, text |-> text, base |-> base]
         /\ sstoi_out' = sstoi(text, base, T)
  /\ op' = "sstoi"
  /\ UNCHANGED <<itoss_in, itoss_out>>
  /\ UNCHANGED flvars
  /\ UNCHANGED fvars
  /\ UNCHANGED cvars

\* a caller decodes, in the same base and type, the span itoss just returned
SstoiOfItoss ==
  /\ op = "itoss"
  /\ itoss_out.returned /\ ~itoss_out.null /\ itoss_out.lo >= 0
  /\ sstoi_in' = [T |-> itoss_in.T, text |-> itoss_out.written, base |-> itoss_in.base]
  /\ sstoi_out' = sstoi(itoss_out.written, itoss_in.base, itoss_in.T)
  /\ op' = "roundtrip"
  /\ UNCHANGED <<itoss_in, itoss_out>>
  /\ UNCHANGED flvars
  /\ UNCHANGED fvars
  /\ UNCHANGED cvars

\* the caller is done with the results
Return ==
  /\ op # "idle"
  /\ op' = "idle"
  /\ itoss_in' = NoItossIn
  /\ itoss_out' = NoItossOut
  /\ sstoi_in' = NoSstoiIn
  /\ sstoi_out' = NoSstoiOut
  /\ UNCHANGED flvars
  /\ UNCHANGED fvars
  /\ UNCHANGED cvars

NextInt == Itoss \/ Sstoi \/ SstoiOfItoss \/ Return
SpecInt == Init /\ [][NextInt]_vars

\* the char '\0'
NUL == ""

----------------------------------------------------------------------------
(* toy_charconv.hh: floating point to text *)

\* A double is written [neg, m, e] for (-1)^neg * m * 10^e, with m not a
\* multiple of 10 (m = 0, e = 0 for zero).  The values of the model are
\* those the conversion treats exactly as this decimal: either the double
\* and every mantissa the scientific style derives from it are dyadic, or m
\* does not end in 5, so that no rounding at the precisions of the model
\* lands on a tie which the binary error could decide.  NaN and the
\* infinities are not among them.
Dec(neg, m, e) == [neg |-> neg, m |-> m, e |-> e]
Zero == Dec(FALSE, 0, 0)

\* POW10_TABLE[k]; the model stays below 10^10
POW10_TABLE(k) == 10 ^ k

RECURSIVE NumDigits(_)
NumDigits(m) == IF m < 10 THEN 1 ELSE 1 + NumDigits(m \div 10)

\* exponent_calculator<double>::calculate: floor(log10(abs_value))
exponent_calculator(value) == NumDigits(value.m) - 1 + value.e

\* get_fp_parts: the integer part and the fraction scaled by 10^precision,
\* rounded half up, with its carry
get_fp_parts(value, precision) ==
  IF value.e >= 0
    THEN [int_part |-> value.m * POW10_TABLE(value.e), frac_part |-> 0]
  ELSE
    LET k == -value.e
        i0 == value.m \div POW10_TABLE(k)
        r == value.m % POW10_TABLE(k)
        f0 == IF precision >= k THEN r * POW10_TABLE(precision - k)
              ELSE (2 * r + POW10_TABLE(k - precision)) \div (2 * POW10_TABLE(k - precision))
    IN IF f0 >= POW10_TABLE(precision)
         THEN [int_part |-> i0 + 1, frac_part |-> f0 - POW10_TABLE(precision)]
         ELSE [int_part |-> i0, frac_part |-> f0]

\* the bytes stored so far with `bytes` stored from offset `at` on
store_at(stored, at, bytes) ==
  SubSeq(stored, 1, at) \o bytes \o SubSeq(stored, at + Len(bytes) + 1, Len(stored))

\* to_chars_helper on a buffer of n bytes: text is [buffer_, ptr_), hi the
\* highest offset stored to, plus one, stored the bytes from buffer_ up to
\* there
to_chars_helper(n) == [text |-> <<>>, hi |-> 0, n |-> n, stored |-> <<>>]

\* _write_string: checked against end_, the bytes are dropped when they do
\* not fit
_write_string(st, str) ==
  The({ IF Len(s.text) + Len(str) <= s.n
          THEN [s EXCEPT !.text = @ \o str, !.hi = Max(@, Len(s.text) + Len(str)),
                         !.stored = store_at(@, Len(s.text), str)]
          ELSE s
        : s \in {st} })

\* _write_char: *(ptr_++) = c, not checked
_write_char(st, c) ==
  The({ [s EXCEPT !.text = @ \o <<c>>, !.hi = Max(@, Len(s.text) + 1),
                  !.stored = store_at(@, Len(s.text), <<c>>)]
        : s \in {st} })

\* _convert_float_integer_part: std::copy_n of the digits, not checked
_convert_float_integer_part(st, value) ==
  IF value = 0 THEN _write_char(st, "0")
  ELSE The({ [s EXCEPT !.text = @ \o digits,
                        !.hi = Max(@, Len(s.text) + Len(digits)),
                        !.stored = store_at(@, Len(s.text), digits)]
             : s \in {st}, digits \in {convert_integer_u_base10(<<>>, value)} })

\* the digit loop of _convert_float_fractional_part from digit i on
RECURSIVE fractional_digits(_, _, _, _)
fractional_digits(st, fractional, precision, i) ==
  IF ~(i < precision) THEN st
  ELSE fractional_digits(
         _write_string(st, <<digits_lower[((fractional \div POW10_TABLE(precision - 1 - i)) % 10) + 1]>>),
         fractional, precision, i + 1)

_convert_float_fractional_part(st, fractional, precision) ==
  IF precision <= 0 THEN st ELSE fractional_digits(st, fractional, precision, 0)

\* _convert_float_as_fixed (_convert_fixed_with_low_precision)
_convert_float_as_fixed(st, value, precision) ==
  The({ IF precision > 0
          THEN _convert_float_fractional_part(
                 _write_char(_convert_float_integer_part(st, parts.int_part), "."),
                 parts.frac_part, precision)
          ELSE _convert_float_integer_part(st, parts.int_part)
        : parts \in {get_fp_parts(value, precision)} })

\* the exponent digits of _convert_float_as_scientific
write_exponent(st, exponent) ==
  IF exponent < 10
    THEN _write_char(_write_char(st, "0"), digits_lower[exponent + 1])
  ELSE IF exponent < 100
    THEN _write_char(_write_char(st, digits_lower[(exponent \div 10) + 1]),
                     digits_lower[(exponent % 10) + 1])
  ELSE _convert_float_integer_part(st, exponent)

\* _convert_float_as_scientific; the two epsilon tests read on the exact
\* value, no mantissa of the model being within epsilon of 1 or 10
_convert_float_as_scientific(st, value, precision0, uppercase) ==
  IF value.m = 0
    THEN _write_string(_write_char(_convert_float_as_fixed(st, Zero, precision0),
                                   IF uppercase THEN "E" ELSE "e"),
                       <<"+", "0", "0">>)
  ELSE
    LET exponent0 == exponent_calculator(value)
        mantissa0 == Dec(FALSE, value.m, value.e - exponent0)
        ge10 == NumDigits(mantissa0.m) + mantissa0.e > 1
        lt1 == NumDigits(mantissa0.m) + mantissa0.e < 1
        mantissa == IF ge10 THEN Dec(FALSE, mantissa0.m, mantissa0.e - 1)
                    ELSE IF lt1 THEN Dec(FALSE, mantissa0.m, mantissa0.e + 1)
                    ELSE mantissa0
        exponent == IF ge10 THEN exponent0 + 1 ELSE IF lt1 THEN exponent0 - 1 ELSE exponent0
        precision == IF precision0 < 0 THEN 6 ELSE precision0
    IN write_exponent(
         _write_char(_write_char(_convert_float_as_fixed(st, mantissa, precision),
                                 IF uppercase THEN "E" ELSE "e"),
                     IF exponent >= 0 THEN "+" ELSE "-"),
         IF exponent >= 0 THEN exponent ELSE -exponent)

\* the `while (end >= buffer_ && *end == '0') --end;` of
\* _remove_float_trailing_zeros, on the text before ptr_
RECURSIVE skip_zeros(_)
skip_zeros(text) ==
  IF Len(text) > 0 /\ text[Len(text)] = "0" THEN skip_zeros(SubSeq(text, 1, Len(text) - 1))
  ELSE text

_remove_float_trailing_zeros(st) ==
  The({ The({ IF Len(end) > 0 /\ end[Len(end)] = "."
                THEN [s EXCEPT !.text = SubSeq(end, 1, Len(end) - 1)]
                ELSE [s EXCEPT !.text = end]
              : end \in {skip_zeros(s.text)} })
        : s \in {st} })

_convert_float_as_general(st, value, precision0) ==
  LET precision == IF precision0 < 0 THEN 6 ELSE precision0 IN
  IF value.m = 0
    THEN _remove_float_trailing_zeros(_convert_float_as_fixed(st, value, precision))
  ELSE
    LET exponent == exponent_calculator(value)
        integer_digits == IF exponent >= 0 THEN exponent + 1 ELSE 0
        fixed_precision == Max(precision - integer_digits, 0)
    IN IF exponent >= -4 /\ exponent < precision
         THEN _remove_float_trailing_zeros(_convert_float_as_fixed(st, value, fixed_precision))
         ELSE _remove_float_trailing_zeros(
                _convert_float_as_scientific(st, value, precision - 1, FALSE))

\* LDB_UINT64_MAX is above every value of the model
MAX_FLOAT_PRECISION == 17

\* _convert_float_dispatch after _before_convert_float_special_value, which
\* writes the '-' of a negative value and negates it
_convert_float_dispatch(st0, value0, format, precision0, uppercase) ==
  LET st == IF value0.neg THEN _write_char(st0, "-") ELSE st0
      value == Dec(FALSE, value0.m, value0.e)
      precision1 == IF precision0 > MAX_FLOAT_PRECISION THEN MAX_FLOAT_PRECISION
                    ELSE precision0
  IN IF format = "fixed"
       THEN _convert_float_as_fixed(st, value, IF precision1 < 0 THEN 6 ELSE precision1)
     ELSE IF format = "scientific"
       THEN _convert_float_as_scientific(st, value,
                                         IF precision1 < 0 THEN 6 ELSE precision1, uppercase)
     ELSE _convert_float_as_general(st, value, precision1)

\* from_float: {buffer_, ptr_ - buffer_} with the stores the call made
from_float(n, value, format, precision, uppercase) ==
  The({ [ptr |-> 0, size |-> Len(st.text), text |-> st.text, hi |-> st.hi,
         stored |-> st.stored, returned |-> TRUE]
        : st \in {_convert_float_dispatch(to_chars_helper(n), value, format, precision,
                                          uppercase)} })

\* ftoss(out_buffer, buffer_size, value, format, precision, uppercase),
\* executed line by line
ftoss_pack(n, value, format, precision, uppercase) ==
  from_float(n, value, format,
             IF precision < 0 THEN 0 ELSE IF precision > 17 THEN 17 ELSE precision,
             uppercase)

\* A store at or after out_buffer + buffer_size is undefined behaviour: the
\* call may return what the straight-line execution returns, or not return.
ftoss(n, value, format, precision, uppercase) ==
  The({ IF r.hi > n THEN {r, [r EXCEPT !.returned = FALSE]} ELSE {r}
        : r \in {ftoss_pack(n, value, format, precision, uppercase)} })

\* The ftoss calls the model makes: values with integer parts, fractions,
\* carries and exponents of one and two digits, in the three styles, with
\* precisions from -1 (the default argument) to MaxPrecision, into buffers
\* from empty to roomy.
MaxPrecision == 6
RoomyFloatBuf == 32
FloatBufSizes == {0, 1, 2, 4, 8, RoomyFloatBuf}
FloatFormats == {"fixed", "scientific", "general"}
Magnitudes ==
  {Zero, Dec(FALSE, 1, 0), Dec(FALSE, 3, 0), Dec(FALSE, 12, 0), Dec(FALSE, 2, 1),
   Dec(FALSE, 1, 2), Dec(FALSE, 1, 5), Dec(FALSE, 1, 6), Dec(FALSE, 5, -1), Dec(FALSE, 25, -2),
   Dec(FALSE, 125, -3), Dec(FALSE, 25, -1), Dec(FALSE, 95, -1), Dec(FALSE, 125, -1),
   Dec(FALSE, 314159, -5), Dec(FALSE, 1, -4), Dec(FALSE, 2, -5)}
\* values whose integer part only the scientific style writes
LargeMagnitudes == {Dec(FALSE, 2, 10), Dec(FALSE, 1, 10), Dec(FALSE, 4, 18)}
Negated(S) == {Dec(v.m # 0, v.m, v.e) : v \in S}
FtossCalls ==
  {[value |-> v, format |-> f, precision |-> p, uppercase |-> u, n |-> n]
     : v \in Magnitudes \cup Negated(Magnitudes), f \in FloatFormats,
       p \in -1..MaxPrecision, u \in BOOLEAN, n \in FloatBufSizes}
  \cup
  {[value |-> v, format |-> f, precision |-> p, uppercase |-> u, n |-> n]
     : v \in LargeMagnitudes \cup Negated(LargeMagnitudes),
       f \in {"scientific", "general"},
       p \in -1..MaxPrecision, u \in BOOLEAN, n \in FloatBufSizes}

\* a caller encodes a double into its own buffer
Ftoss ==
  /\ op = "idle"
  /\ \E call \in FtossCalls :
       /\ ftoss_in' = call
       /\ ftoss_out' \in ftoss(call.n, call.value, call.format, call.precision,
                               call.uppercase)
  /\ op' = "ftoss"
  /\ UNCHANGED <<itoss_in, itoss_out, sstoi_in, sstoi_out, sstof_in, sstof_out,
                 split_in, split_out>>
  /\ UNCHANGED fvars
  /\ UNCHANGED cvars

\* the caller is done with the result
FtossReturn ==
  /\ op = "ftoss"
  /\ op' = "idle"
  /\ ftoss_in' = NoFtossIn
  /\ ftoss_out' = NoFtossOut
  /\ UNCHANGED <<itoss_in, itoss_out, sstoi_in, sstoi_out, sstof_in, sstof_out,
                 split_in, split_out>>
  /\ UNCHANGED fvars
  /\ UNCHANGED cvars

----------------------------------------------------------------------------
(* toy_charconv.hh: text to floating point *)

\* The bytes sstof can reach are those of the span [first, end) and the
\* bytes that follow it in the caller's memory: mem is the span with the
\* following bytes appended, so that mem[Len(s) + 1] is *end.
uint64_t == [bits |-> 30, signed |-> FALSE]
unsigned == [bits |-> 30, signed |-> FALSE]

\* get_pow10(x): POW10_TABLE[x]; the table has the entries 0..18
POW10_TABLE_SIZE == 19
\* what the words behind the table may hold
WordsBehindTable == {0, 1, 12345}

\* starts.v == inf_low.v || starts.v == inf_upper.v, and the same for nan,
\* on the three bytes at first
is_inf(starts) == starts = <<"i", "n", "f">> \/ starts = <<"I", "N", "F">>
is_nan(starts) == starts = <<"n", "a", "n">> \/ starts = <<"N", "A", "N">>
\* the same tests made on the letters, whatever their case
is_inf_any_case(starts) ==
  /\ starts[1] \in {"i", "I"} /\ starts[2] \in {"n", "N"} /\ starts[3] \in {"f", "F"}
is_nan_any_case(starts) ==
  /\ starts[1] \in {"n", "N"} /\ starts[2] \in {"a", "A"} /\ starts[3] \in {"n", "N"}

\* the highest index a stoi_base10_u call on [first, last) read, 0 if none
stoi_reads(r, first, last) ==
  IF first < last THEN (IF r.ptr < last THEN r.ptr ELSE last - 1) ELSE 0

\* the exponent part of sstof: the scan for 'e' / 'E' from exp_p, the digits
\* and the table lookup.  Returns [found, sign_e, exponent, rd]: rd is the
\* highest index read.
RECURSIVE sstof_exponent(_, _, _)
sstof_exponent(mem, exp_p, end) ==
  IF ~(exp_p < end) THEN [found |-> FALSE, sign_e |-> 1, exponent |-> 0, rd |-> 0]
  ELSE IF mem[exp_p] = "e" \/ mem[exp_p] = "E"
    THEN LET remaining0 == end - (exp_p + 1)
             remaining == IF remaining0 > 17 THEN 17 ELSE remaining0
             sg == get_sign_for_sstov(mem, exp_p + 1)
             res == stoi_base10_u(mem, sg.first, sg.first + remaining, unsigned.bits)
         IN [found |-> TRUE, sign_e |-> sg.sign, exponent |-> res.result,
             rd |-> Max(exp_p + 1, stoi_reads(res, sg.first, sg.first + remaining))]
  ELSE sstof_exponent(mem, exp_p + 1, end)

\* sstof(first, end, value) on the span s followed in memory by `beyond`.
\* value is what the arithmetic of the call is made of: the class, the
\* sign, the integer part, the fraction and its digit count, and for each
\* get_pow10 call its index x and the word it read.  rd is the highest
\* index read; lookups are the get_pow10 calls made, with their index x.
sstof_pack(s, beyond) ==
  LET mem == s \o beyond
      end == Len(s) + 1
      sg == get_sign_for_sstov(mem, 1)
      first == sg.first
      starts == SubSeq(mem, first, first + 2)
  IN IF end - first >= 3 /\ is_inf(starts)
       THEN [ptr |-> first + 3, ec |-> "none", rd |-> first + 3, lookups |-> <<>>,
             value |-> [class |-> "inf", sign |-> sg.sign]]
     ELSE IF end - first >= 3 /\ is_nan(starts)
       THEN [ptr |-> first + 3, ec |-> "none", rd |-> first + 3, lookups |-> <<>>,
             value |-> [class |-> "nan", sign |-> 1]]
     ELSE
       LET rd0 == IF end - first >= 3 THEN first + 3 ELSE 1
           r64 == stoi_base10_u(mem, first, end, uint64_t.bits)
           res1 == IF r64.ec = "result_out_of_range"
                     THEN stoi_base10_u(mem, first, end, uint64_t.bits) ELSE r64
           has_frac == mem[res1.ptr] = "."
           frac_p == res1.ptr + 1
           frac_part_end == IF end - frac_p > 17 THEN frac_p + 17 ELSE end
           res2 == IF has_frac
                     THEN stoi_base10_u(mem, frac_p, frac_part_end, uint64_t.bits)
                     ELSE res1
           frac_digits_count == IF res2.ptr - frac_p > 17 THEN 17 ELSE res2.ptr - frac_p
           ex == sstof_exponent(mem, res2.ptr, end)
       IN [ptr |-> end, ec |-> "none",
           rd |-> Max(Max(rd0, res1.ptr),
                      Max(IF has_frac THEN stoi_reads(res2, frac_p, frac_part_end) ELSE 0,
                          ex.rd)),
           lookups |-> (IF has_frac THEN <<[use |-> "fraction", x |-> frac_digits_count]>>
                        ELSE <<>>)
                         \o (IF ex.found THEN <<[use |-> "exponent", x |-> ex.exponent]>>
                             ELSE <<>>),
           value |-> [class |-> "finite", sign |-> sg.sign,
                      int_part |-> res1.result,
                      frac_part |-> IF has_frac THEN res2.result ELSE 0,
                      frac_digits |-> IF has_frac THEN frac_digits_count ELSE 0,
                      sign_e |-> ex.sign_e,
                      exponent |-> ex.exponent]]

\* A get_pow10 index outside the table reads a word behind it, which is
\* undefined behaviour: the factor is whatever lies there, or the call does
\* not return.  `factor` is the index when the table is read inside
\* (the factor is 10^factor), and `word` the word read outside it.
sstof(s, beyond) ==
  The({ IF \E i \in 1..Len(r.lookups) : r.lookups[i].x >= POW10_TABLE_SIZE
          THEN {[r EXCEPT !.value = [class |-> "indeterminate", sign |-> r.value.sign,
                                     word |-> w]] @@ [returned |-> b]
                  : w \in WordsBehindTable, b \in BOOLEAN}
          ELSE {r @@ [returned |-> TRUE]}
        : r \in {sstof_pack(s, beyond)} })

\* The sstof calls the model makes: the inf / nan tokens in every case,
\* signed and followed by more text; numerals with and without a fraction
\* and an exponent, exponents up to and beyond the last table entry and
\* beyond the `unsigned` range; each followed in memory by NULs, by digits
\* or by the bytes sstof looks for.
CaseCombinations(lower, upper) ==
  {<<a, b, c>> : a \in {lower[1], upper[1]}, b \in {lower[2], upper[2]},
                 c \in {lower[3], upper[3]}}
SpecialTokens ==
  CaseCombinations(<<"i", "n", "f">>, <<"I", "N", "F">>)
    \cup CaseCombinations(<<"n", "a", "n">>, <<"N", "A", "N">>)
SstofSigns == {<<>>, <<"+">>, <<"-">>}
SpecialTexts ==
  {sg \o t \o tail : sg \in SstofSigns, t \in SpecialTokens, tail \in {<<>>, <<"1">>}}
    \cup {sg \o t : sg \in SstofSigns, t \in {<<"i", "n">>, <<"n", "a">>}}
IntegerTexts == {<<>>, <<"0">>, <<"1", "2">>}
FractionTexts == {<<>>, <<".">>, <<".", "5">>, <<".", "2", "5">>}
ExponentTexts ==
  {<<>>, <<"e">>, <<"e", "1">>, <<"e", "+", "2">>, <<"e", "-", "3">>, <<"E", "1", "8">>,
   <<"e", "1", "9">>, <<"e", "-", "1", "9">>, <<"e", "-", "1">>, <<"x", "e", "2">>,
   <<"e", "9", "9", "9", "9", "9", "9", "9", "9", "9", "9">>}
NumeralTexts ==
  {sg \o i \o f \o e :
     sg \in SstofSigns, i \in IntegerTexts, f \in FractionTexts, e \in ExponentTexts}
SstofTexts == SpecialTexts \cup NumeralTexts
Beyonds == {<<NUL, NUL>>, <<"9", "9">>, <<"-", ".">>, <<".", "5">>, <<"e", "1">>}

\* a caller decodes a text of its own into a double
Sstof ==
  /\ op = "idle"
  /\ \E text \in SstofTexts, beyond \in Beyonds :
       /\ sstof_in' = [text |-> text, beyond |-> beyond]
       /\ sstof_out' \in sstof(text, beyond)
  /\ op' = "sstof"
  /\ UNCHANGED <<itoss_in, itoss_out, sstoi_in, sstoi_out, ftoss_in, ftoss_out,
                 split_in, split_out>>
  /\ UNCHANGED fvars
  /\ UNCHANGED cvars

\* the caller is done with the result
SstofReturn ==
  /\ op = "sstof"
  /\ op' = "idle"
  /\ sstof_in' = NoSstofIn
  /\ sstof_out' = NoSstofOut
  /\ UNCHANGED <<itoss_in, itoss_out, sstoi_in, sstoi_out, ftoss_in, ftoss_out,
                 split_in, split_out>>
  /\ UNCHANGED fvars
  /\ UNCHANGED cvars

----------------------------------------------------------------------------
(* toy_charconv.hh: get_fp_parts on the bits of a float or a double *)

\* The working types of get_fp_parts are 32, 64 and 128 bits wide.  A value
\* of such a type is written as its bytes, lowest first, without leading
\* zero bytes (<<>> is 0), and the arithmetic is done on the bytes.
RECURSIVE Bytes(_)
Bytes(n) == IF n = 0 THEN <<>> ELSE <<n % 256>> \o Bytes(n \div 256)

RECURSIVE Trimmed(_)
Trimmed(x) ==
  IF Len(x) > 0 /\ x[Len(x)] = 0 THEN Trimmed(SubSeq(x, 1, Len(x) - 1)) ELSE x

ByteAt(x, i) == IF i <= Len(x) THEN x[i] ELSE 0

\* x + y
RECURSIVE AddFrom(_, _, _, _, _)
AddFrom(x, y, i, c, acc) ==
  IF i > Len(x) /\ i > Len(y) THEN (IF c = 0 THEN acc ELSE Append(acc, c))
  ELSE AddFrom(x, y, i + 1, (ByteAt(x, i) + ByteAt(y, i) + c) \div 256,
               Append(acc, (ByteAt(x, i) + ByteAt(y, i) + c) % 256))
Add(x, y) == AddFrom(x, y, 1, 0, <<>>)

\* x - y, for x >= y
RECURSIVE SubFrom(_, _, _, _, _)
SubFrom(x, y, i, b, acc) ==
  IF i > Len(x) THEN acc
  ELSE SubFrom(x, y, i + 1, IF x[i] - ByteAt(y, i) - b < 0 THEN 1 ELSE 0,
               Append(acc, (x[i] - ByteAt(y, i) - b + 256) % 256))
Sub(x, y) == Trimmed(SubFrom(x, y, 1, 0, <<>>))

\* x * k for a k below 2^20
RECURSIVE MulSmallFrom(_, _, _, _, _)
MulSmallFrom(x, k, i, c, acc) ==
  IF i > Len(x) THEN acc \o Bytes(c)
  ELSE MulSmallFrom(x, k, i + 1, (x[i] * k + c) \div 256, Append(acc, (x[i] * k + c) % 256))
MulSmall(x, k) == Trimmed(MulSmallFrom(x, k, 1, 0, <<>>))

\* x * y
RECURSIVE MulFrom(_, _, _, _)
MulFrom(x, y, i, acc) ==
  IF i > Len(y) THEN acc
  ELSE MulFrom(x, y, i + 1, Add(acc, [j \in 1..(i - 1) |-> 0] \o MulSmall(x, y[i])))
Mul(x, y) == Trimmed(MulFrom(x, y, 1, <<>>))

\* x << k, x >> k and x & ((1 << k) - 1), not reduced to a width
Shl(x, k) == Trimmed([j \in 1..(k \div 8) |-> 0] \o MulSmall(x, 2 ^ (k % 8)))
Shr(x, k) ==
  Trimmed([i \in 1..(IF Len(x) > k \div 8 THEN Len(x) - (k \div 8) ELSE 0) |->
             (x[i + (k \div 8)] \div 2 ^ (k % 8))
               + (ByteAt(x, i + (k \div 8) + 1) % 2 ^ (k % 8)) * 2 ^ (8 - (k % 8))])
Low(x, k) ==
  Trimmed([i \in 1..(IF Len(x) > k \div 8 THEN (k \div 8) + 1 ELSE Len(x)) |->
             IF i <= k \div 8 THEN x[i] ELSE x[i] % 2 ^ (k % 8)])

\* x < y
Less(x, y) ==
  \/ Len(x) < Len(y)
  \/ /\ Len(x) = Len(y)
     /\ \E i \in 1..Len(x) : x[i] < y[i] /\ \A j \in (i + 1)..Len(x) : x[j] = y[j]

\* 10^p
RECURSIVE Pow10(_)
Pow10(p) == IF p = 0 THEN <<1>> ELSE MulSmall(Pow10(p - 1), 10)

\* A finite non-negative value is written [c, q] for c * 2^q, c odd (c = 0,
\* q = 0 for zero).
RECURSIVE BitLength(_)
BitLength(c) == IF c = 0 THEN 0 ELSE 1 + BitLength(c \div 2)

\* the union `conv`: the exponent field less the bias, and the mantissa
\* field with the implicit bit
conv(traits, value) ==
  IF value.c = 0
    THEN [exponent |-> -traits.exponent_bias, mantissa |-> Shl(<<1>>, traits.mantissa_bits)]
    ELSE [exponent |-> value.q + BitLength(value.c) - 1,
          mantissa |-> Shl(Bytes(value.c), traits.mantissa_bits - (BitLength(value.c) - 1))]

\* static_cast to a type of w bits: [v, wrapped]
cast(x, w) == The({ [v |-> low, wrapped |-> low # x] : low \in {Low(x, w)} })

\* the pure integer case: static_cast<store_type>(mantissa) << k.  A shift
\* by the width of the type or more is undefined behaviour: zero, or the
\* shift by the count modulo the width.
get_fp_parts_pure_integer(traits, mantissa, k) ==
  The({ {[integer_part |-> cast(x, traits.store_bits).v, fractional_part |-> <<>>,
          wrapped |-> cast(x, traits.store_bits).wrapped]}
          \cup (IF k >= traits.store_bits
                  THEN {[integer_part |-> <<>>, fractional_part |-> <<>>, wrapped |-> TRUE],
                        [integer_part |-> cast(Shl(mantissa, k % traits.store_bits),
                                               traits.store_bits).v,
                         fractional_part |-> <<>>, wrapped |-> TRUE]}
                  ELSE {})
        : x \in {Shl(mantissa, k)} })

\* the carry step
get_fp_parts_carry(parts, pow10_precision, store_bits) ==
  IF ~Less(parts.fractional_part, pow10_precision)
    THEN [parts EXCEPT !.fractional_part = Sub(@, pow10_precision),
                       !.integer_part = cast(Add(@, <<1>>), store_bits).v,
                       !.wrapped = @ \/ cast(Add(parts.integer_part, <<1>>), store_bits).wrapped]
    ELSE parts

\* the fraction: temp = effective_mantissa * pow10_precision, rounded, shifted
\* and cast, then the two carries
get_fp_parts_fraction(traits, integer_part, effective_mantissa, pow10, shift_bits) ==
  The({ The({ The({ get_fp_parts_carry(
                      get_fp_parts_carry(
                        [integer_part |-> integer_part.v, fractional_part |-> frac.v,
                         wrapped |-> \/ integer_part.wrapped \/ pow10.wrapped
                                     \/ temp.wrapped \/ rounded.wrapped \/ frac.wrapped],
                        pow10.v, traits.store_bits),
                      pow10.v, traits.store_bits)
                    : frac \in {cast(Shr(rounded.v, shift_bits), traits.store_bits)} })
              : rounded \in {IF shift_bits > 0
                               THEN cast(Add(temp.v, Shl(<<1>>, shift_bits - 1)),
                                         traits.up_store_bits)
                               ELSE temp} })
        : temp \in {cast(Mul(effective_mantissa, pow10.v), traits.up_store_bits)} })

\* get_fp_parts<fp_type>(value, precision) on the bits of the value: the
\* set of [integer_part, fractional_part, wrapped] it can return, wrapped
\* telling that an intermediate result did not fit its type
get_fp_parts_on_bits(traits, bits, pow10, precision) ==
  IF bits.exponent > traits.mantissa_bits
    THEN get_fp_parts_pure_integer(traits, bits.mantissa,
                                   bits.exponent - traits.mantissa_bits)
  ELSE
    LET shift_bits == IF bits.exponent >= 0 THEN traits.mantissa_bits - bits.exponent
                      ELSE traits.mantissa_bits + (-bits.exponent)
        integer_part == IF bits.exponent >= 0
                          THEN cast(Shr(bits.mantissa, shift_bits), traits.store_bits)
                          ELSE [v |-> <<>>, wrapped |-> FALSE]
        effective_mantissa == IF bits.exponent >= 0 THEN Low(bits.mantissa, shift_bits)
                              ELSE bits.mantissa
    IN IF shift_bits <= traits.max_shift_bits
         THEN {get_fp_parts_fraction(traits, integer_part, effective_mantissa, pow10,
                                     shift_bits)}
         ELSE {[integer_part |-> integer_part.v, fractional_part |-> <<>>,
                wrapped |-> pow10.wrapped]}

\* _split_float_u<T>(value, precision)
_split_float_u(traits, value, precision) ==
  get_fp_parts_on_bits(traits, conv(traits, value),
                       cast(Pow10(precision), traits.store_bits), precision)

\* The splits the model makes: floats and doubles c * 2^q below 2^64, from
\* far below one to the largest shifts, with mantissas of one bit and of
\* all bits, at every precision ftoss lets through.
SplitMantissas == {1, 3, 5, 11, 16777215}
SplitExponents == {-45, -41, -30, -24, -10, -3, -1, 0, 1, 9, 23, 24, 31, 32, 40, 54, 62}
SplitValues ==
  {[c |-> 0, q |-> 0]}
    \cup {v \in [c : SplitMantissas, q : SplitExponents] : v.q + BitLength(v.c) <= 64}

\* a caller splits a value
SplitFloat ==
  /\ op = "idle"
  /\ \E traits \in {fp_traits_float, fp_traits_double}, value \in SplitValues,
        precision \in 0..MAX_FLOAT_PRECISION :
       /\ split_in' = [traits |-> traits, value |-> value, precision |-> precision]
       /\ split_out' \in _split_float_u(traits, value, precision)
  /\ op' = "split"
  /\ UNCHANGED <<itoss_in, itoss_out, sstoi_in, sstoi_out, ftoss_in, ftoss_out,
                 sstof_in, sstof_out>>
  /\ UNCHANGED fvars
  /\ UNCHANGED cvars

\* the caller is done with the parts
SplitReturn ==
  /\ op = "split"
  /\ op' = "idle"
  /\ split_in' = NoSplitIn
  /\ split_out' = NoSplitOut
  /\ UNCHANGED <<itoss_in, itoss_out, sstoi_in, sstoi_out, ftoss_in, ftoss_out,
                 sstof_in, sstof_out>>
  /\ UNCHANGED fvars
  /\ UNCHANGED cvars

NextFloat ==
  Ftoss \/ FtossReturn \/ Sstof \/ SstofReturn \/ SplitFloat \/ SplitReturn
SpecFloat == Init /\ [][NextFloat]_vars

----------------------------------------------------------------------------
(* format.hh: format specifications and the integer formatter *)

IsDigitChar(c) == c \in {"0", "1", "2", "3", "4", "5", "6", "7", "8", "9"}

\* `int value` and `size_t nested_index` of the nested-placeholder parsers.
\* Every text decoded into them is the decimal image of a 16-bit argument or
\* a digit run no longer than the template, so neither range check of sstoi
\* can trigger on them; they are evaluated 30 bits wide.
int_t == [bits |-> 30, signed |-> TRUE]
size_t == [bits |-> 30, signed |-> FALSE]

\* the ceilings of parse_format_spec_with_args
MAX_WIDTH == 10000
MAX_PRECISION == 1000

\* format_spec{}
format_spec ==
  [width |-> -1, precision |-> -1, fill |-> " ", align |-> NUL, sign |-> "-",
   alternate |-> FALSE, type |-> NUL, fmt_beg |-> 0, fmt_end |-> 0]

\* output.put(n, fill_char)
Fill(n, c) == [i \in 1..n |-> c]

\* apply_alignment with the larger half of a centred padding put first
apply_alignment_left_biased(content, spec) ==
  The({
      LET content_len == Len(c) IN
      IF spec.width <= 0 \/ content_len >= spec.width THEN c
      ELSE
        LET padding == spec.width - content_len IN
        IF content_len = 0 /\ spec.width > 0 THEN Fill(padding, spec.fill)
        ELSE IF spec.align = "<" THEN c \o Fill(padding, spec.fill)
        ELSE IF spec.align = "^" THEN
          LET right_pad == padding \div 2
              left_pad == padding - right_pad
          IN Fill(left_pad, spec.fill) \o c \o Fill(right_pad, spec.fill)
        ELSE Fill(padding, spec.fill) \o c
    : c \in {content} })

\* apply_alignment: the bytes it puts for the content under the spec
apply_alignment(content, spec) ==
  The({
      LET content_len == Len(c) IN
      IF spec.width <= 0 \/ content_len >= spec.width THEN c
      ELSE
        LET padding == spec.width - content_len IN
        IF content_len = 0 /\ spec.width > 0 THEN Fill(padding, spec.fill)
        ELSE IF spec.align = "<" THEN c \o Fill(padding, spec.fill)
        ELSE IF spec.align = "^" THEN
          LET left_pad == padding \div 2
              right_pad == padding - left_pad
          IN Fill(left_pad, spec.fill) \o c \o Fill(right_pad, spec.fill)
        ELSE Fill(padding, spec.fill) \o c
    : c \in {content} })

pre_parse_integer_type(spec) ==
  IF spec.type \in {"b", "B"} THEN [base |-> 2, uppercase |-> spec.type = "B"]
  ELSE IF spec.type = "o" THEN [base |-> 8, uppercase |-> FALSE]
  ELSE IF spec.type \in {"x", "X"} THEN [base |-> 16, uppercase |-> spec.type = "X"]
  ELSE [base |-> 10, uppercase |-> FALSE]

\* make_general_integer_buffer_size<T>(), by sizeof(T)
make_general_integer_buffer_size(T) ==
  IF T.bits <= 16 THEN 16 ELSE IF T.bits <= 32 THEN 24 ELSE IF T.bits <= 64 THEN 32 ELSE 45

\* format_integer_impl<T>: the bytes it puts.  Its buffers hold every
\* rendering of T, so itoss stores nothing below them here.
format_integer_impl(value, spec, T) ==
  IF spec.width <= 0 /\ spec.precision < 0 /\ ~spec.alternate
     /\ (spec.type = NUL \/ spec.type = "d")
    THEN LET r == from_integer(value, 10, FALSE, FALSE, T,
                               make_general_integer_buffer_size(T))
         IN IF ~r.null THEN r.written ELSE <<>>
  ELSE
    LET bu == pre_parse_integer_type(spec)
        buffer_size == IF bu.base = 2 THEN T.bits + 8
                       ELSE make_general_integer_buffer_size(T)
        r == from_integer(value, bu.base, bu.uppercase, spec.alternate, T, buffer_size)
    IN apply_alignment(IF r.null THEN <<>> ELSE r.written, spec)

\* format_string_impl: precision cuts the text, then the alignment step
format_string_impl(data, spec) ==
  LET len == IF spec.precision >= 0 /\ spec.precision < Len(data)
               THEN spec.precision ELSE Len(data)
  IN apply_alignment(SubSeq(data, 1, len), spec)

\* `uintptr_t addr`; every address of the model is below 2^30
uintptr_t == [bits |-> 30, signed |-> FALSE]

\* format_pointer: buffer[22] = {0} receives "0x" at its start and the
\* digits of itoss(buffer + 2, 20, addr, 16) at its end; the alignment step
\* is handed `buffer` and the length itoss returned.  The 20 bytes hold
\* every address, so the throw on a null result cannot be taken.
format_pointer(value, spec) ==
  IF spec.type # "p" THEN <<>>
  ELSE IF value = 0 THEN apply_alignment(<<"0", "x", "0">>, spec)
  ELSE
    LET r == from_integer(value, 16, FALSE, FALSE, uintptr_t, 20)
        buffer == <<"0", "x">> \o Fill(20 - r.size, NUL) \o r.written
    IN apply_alignment(SubSeq(buffer, 1, r.size), spec)

\* `static_cast<int64_t>(value)` of format_float; the integral doubles of
\* the model are below 2^30
int64_t == [bits |-> 30, signed |-> TRUE]

\* make_float_general_precision<double>()
make_float_general_precision == 8

\* format_float<double>: the bytes it puts.  buffer[32] and buffer[64] hold
\* every rendering, so each ftoss returns.  On the last path the sign byte
\* goes to buffer[0] through `ptr`, and ftoss, handed `buffer`, then writes
\* its text from buffer[0] on: the byte is overwritten before anything
\* reads it.
format_float(value, spec) ==
  IF spec.type \in {NUL, "g", "G"} /\ spec.width <= 0 /\ spec.precision < 0 /\ spec.sign = "-"
    THEN ftoss_pack(32, value, "general", make_float_general_precision, FALSE).text
  ELSE IF spec.precision <= 0 /\ value.e >= 0
    THEN format_integer_impl((IF value.neg THEN -1 ELSE 1) * value.m * POW10_TABLE(value.e),
                             spec, int64_t)
  ELSE
    LET enum_format_type == IF spec.type \in {"e", "E"} THEN "scientific"
                            ELSE IF spec.type \in {"f", "F"} THEN "fixed"
                            ELSE "general"
        precision == IF spec.precision >= 0 THEN spec.precision
                     ELSE IF spec.type \in {"e", "E"} THEN 6
                     ELSE make_float_general_precision
        uppercase == spec.type \in {"E", "F", "G"}
    IN apply_alignment(ftoss_pack(63, value, enum_format_type, precision, uppercase).text,
                       spec)

\* format_arg: formatter<T>{}(out, value, spec) by the static type of the
\* argument: short (taken as int), str::u8v, T*, double
format_arg(arg, spec) ==
  CASE arg.kind = "int" -> format_integer_impl(arg.v, spec, arg.T)
    [] arg.kind = "str" -> format_string_impl(arg.s, spec)
    [] arg.kind = "ptr" -> format_pointer(arg.v, spec)
    [] arg.kind = "float" -> format_float(arg.x, spec)

\* format_arg_dispatch: [err, text], text being what the argument's formatter puts
format_arg_dispatch(args, target_index, spec) ==
  IF target_index >= Len(args)
    THEN [err |-> "argument_index_out_of_range", text |-> <<>>]
    ELSE [err |-> "none", text |-> format_arg(args[target_index + 1], spec)]

\* parse_argument_index with `arg_index = auto_index` in place of
\* `arg_index = auto_index++`
parse_argument_index_stuck(f, format_start, format_end, auto_index0) ==
  LET RECURSIVE digits(_, _)
      digits(p, arg_index) ==
        IF ~(p < format_end)
          THEN [arg_index |-> arg_index, auto_index |-> auto_index0,
                has_explicit_index |-> TRUE, err |-> "none"]
        ELSE IF IsDigitChar(f[p])
          THEN digits(p + 1, arg_index * 10 + char_to_digit(f[p]))
        ELSE [arg_index |-> arg_index, auto_index |-> auto_index0,
              has_explicit_index |-> p > format_start, err |-> "invalid_argument_index"]
  IN IF format_start < format_end THEN digits(format_start, 0)
     ELSE [arg_index |-> auto_index0, auto_index |-> auto_index0,
           has_explicit_index |-> FALSE, err |-> "none"]

\* parse_argument_index on [format_start, format_end)
parse_argument_index(f, format_start, format_end, auto_index0) ==
  LET RECURSIVE digits(_, _)
      digits(p, arg_index) ==
        IF ~(p < format_end)
          THEN [arg_index |-> arg_index, auto_index |-> auto_index0,
                has_explicit_index |-> TRUE, err |-> "none"]
        ELSE IF IsDigitChar(f[p])
          THEN digits(p + 1, arg_index * 10 + char_to_digit(f[p]))
        ELSE [arg_index |-> arg_index, auto_index |-> auto_index0,
              has_explicit_index |-> p > format_start, err |-> "invalid_argument_index"]
  IN IF format_start < format_end THEN digits(format_start, 0)
     ELSE [arg_index |-> auto_index0, auto_index |-> auto_index0 + 1,
           has_explicit_index |-> FALSE, err |-> "none"]

\* the value a nested placeholder takes from argument nested_index: the
\* argument is formatted under format_spec{} into temp_out and temp_out is
\* decoded as an int (status)
nested_argument_value(args, nested_index) ==
  The({ IF temp_out.err # "none" THEN [err |-> temp_out.err, value |-> 0]
        ELSE The({ IF status.ec # "none"
                     THEN [err |-> "invalid_value_from_argument", value |-> 0]
                     ELSE [err |-> "none", value |-> status.value]
                   : status \in {sstoi(temp_out.text, 10, int_t)} })
        : temp_out \in {format_arg_dispatch(args, nested_index, format_spec)} })

\* the two assignments exchanged
set_nested_value_exchanged(spec, is_width, value) ==
  IF is_width THEN [spec EXCEPT !.precision = value] ELSE [spec EXCEPT !.width = value]

\* spec.width = value or spec.precision = value
set_nested_value(spec, is_width, value) ==
  IF is_width THEN [spec EXCEPT !.width = value] ELSE [spec EXCEPT !.precision = value]

\* what both nested-placeholder parsers return: `found` is their bool,
\* err the format_error they threw
placeholder_result(found, p, spec, auto_index0, e) ==
  [found |-> found, ptr |-> p, spec |-> spec, auto_index |-> auto_index0, err |-> e]

\* try_parse_indexed_placeholder with ptr at a '{' of the spec [.., end).
\* index is the status nested_index was read with when the parent has an
\* explicit index, and auto_index itself otherwise; v is the argument's value.
try_parse_indexed_placeholder(f, p, end, args, auto_index0, parent_has_explicit_index, spec, is_width) ==
  LET nested_start == p + 1
      RECURSIVE scan(_)
      scan(q) == IF q < end /\ f[q] # "}" THEN scan(q + 1) ELSE q
      ai == IF parent_has_explicit_index THEN auto_index0 ELSE auto_index0 + 1
  IN The({
       IF /\ nested_end < end
          /\ nested_end > nested_start
          /\ \A q \in nested_start..(nested_end - 1) : IsDigitChar(f[q])
         THEN The({
           IF index.ec # "none"
             THEN placeholder_result(FALSE, p, spec, ai, "cannot_convert_index")
           ELSE IF index.value >= Len(args)
             THEN placeholder_result(FALSE, p, spec, ai, "argument_index_out_of_range")
           ELSE The({
             IF v.err # "none" THEN placeholder_result(FALSE, p, spec, ai, v.err)
             ELSE placeholder_result(TRUE, nested_end + 1,
                                     set_nested_value(spec, is_width, v.value), ai, "none")
             : v \in {nested_argument_value(args, index.value)} })
           : index \in {IF parent_has_explicit_index
                          THEN sstoi(SubSeq(f, nested_start, nested_end - 1), 10, size_t)
                          ELSE [ptr |-> nested_end, ec |-> "none", value |-> auto_index0]} })
         ELSE placeholder_result(FALSE, p, spec, auto_index0, "none")
       : nested_end \in {scan(nested_start)} })

\* try_parse_empty_placeholder with ptr at a '{' of the spec [.., end)
try_parse_empty_placeholder(f, p, end, args, auto_index0, parent_has_explicit_index, spec, is_width) ==
  IF p + 1 < end /\ f[p + 1] = "}" THEN
    IF auto_index0 >= Len(args)
      THEN placeholder_result(FALSE, p, spec,
                              IF parent_has_explicit_index THEN auto_index0
                              ELSE auto_index0 + 1,
                              "argument_index_out_of_range")
      ELSE The({
        IF v.err # "none" THEN placeholder_result(FALSE, p, spec, auto_index0 + 1, v.err)
        ELSE placeholder_result(TRUE, p + 2, set_nested_value(spec, is_width, v.value),
                                auto_index0 + 1, "none")
        : v \in {nested_argument_value(args, auto_index0)} })
  ELSE placeholder_result(FALSE, p, spec, auto_index0, "none")

\* the do-while that reads a literal width or precision starting at the
\* digit f[p0]; over is "the value passed the ceiling"
parse_digit_run(f, p0, end, ceiling) ==
  LET RECURSIVE run(_, _)
      run(p, value) ==
        IF value * 10 + char_to_digit(f[p]) > ceiling
          THEN [ptr |-> p + 1, value |-> value * 10 + char_to_digit(f[p]), over |-> TRUE]
        ELSE IF p + 1 < end /\ IsDigitChar(f[p + 1])
          THEN run(p + 1, value * 10 + char_to_digit(f[p]))
        ELSE [ptr |-> p + 1, value |-> value * 10 + char_to_digit(f[p]), over |-> FALSE]
  IN run(p0, 0)

\* the parser's position, the spec so far, auto_index, and the error thrown
spec_state(p, spec, auto_index0, e) ==
  [ptr |-> p, spec |-> spec, auto_index |-> auto_index0, err |-> e]

\* parse_format_spec_with_args reading a width (the default case of its
\* switch) or a precision (after '.') at f[q]: ix and em are what the two
\* nested-placeholder parsers return, run the literal digit run
parse_format_spec_field(f, end, args, parent_has_explicit_index, st, q, is_width) ==
  The({
    IF ix.err # "none" THEN spec_state(st.ptr, st.spec, ix.auto_index, ix.err)
    ELSE IF ix.found THEN spec_state(ix.ptr, ix.spec, ix.auto_index, "none")
    ELSE The({
      IF em.err # "none" THEN spec_state(st.ptr, st.spec, em.auto_index, em.err)
      ELSE IF em.found THEN spec_state(em.ptr, em.spec, em.auto_index, "none")
      ELSE IF IsDigitChar(f[q]) THEN The({
        IF run.over
          THEN spec_state(st.ptr, st.spec, st.auto_index,
                          IF is_width THEN "width_too_large" ELSE "precision_too_large")
          ELSE spec_state(run.ptr, set_nested_value(st.spec, is_width, run.value),
                          st.auto_index, "none")
        : run \in {parse_digit_run(f, q, end,
                                   IF is_width THEN MAX_WIDTH ELSE MAX_PRECISION)} })
      ELSE IF is_width
        THEN spec_state(q + 1, [st.spec EXCEPT !.type = f[q]], st.auto_index, "none")
      ELSE spec_state(q, [st.spec EXCEPT !.precision = 0], st.auto_index, "none")
      : em \in {IF f[q] = "{"
                  THEN try_parse_empty_placeholder(f, q, end, args, st.auto_index,
                         parent_has_explicit_index, st.spec, is_width)
                  ELSE placeholder_result(FALSE, q, st.spec, st.auto_index, "none")} })
    : ix \in {IF f[q] = "{"
                THEN try_parse_indexed_placeholder(f, q, end, args, st.auto_index,
                       parent_has_explicit_index, st.spec, is_width)
                ELSE placeholder_result(FALSE, q, st.spec, st.auto_index, "none")} })

\* one pass of `while (ptr < end) switch (*ptr)` of parse_format_spec_with_args
parse_format_spec_step(f, begin, end, args, parent_has_explicit_index, st) ==
  LET p == st.ptr IN
  IF f[p] \in {"<", ">", "^"} THEN
    spec_state(p + 1,
               [st.spec EXCEPT !.fill = IF p > begin /\ f[p - 1] # "}" /\ f[p - 1] # "{"
                                          THEN f[p - 1] ELSE @,
                               !.align = f[p]],
               st.auto_index, "none")
  ELSE IF f[p] \in {"+", "-", " "}
    THEN spec_state(p + 1, [st.spec EXCEPT !.sign = f[p]], st.auto_index, "none")
  ELSE IF f[p] = "#"
    THEN spec_state(p + 1, [st.spec EXCEPT !.alternate = TRUE], st.auto_index, "none")
  ELSE IF f[p] = "." /\ ~(p + 1 < end)
    THEN spec_state(p + 1, st.spec, st.auto_index, "none")
  ELSE parse_format_spec_field(f, end, args, parent_has_explicit_index, st,
                               IF f[p] = "." THEN p + 1 ELSE p, f[p] # ".")

\* the while loop of parse_format_spec_with_args from the state st
RECURSIVE parse_format_spec_loop(_, _, _, _, _, _)
parse_format_spec_loop(f, begin, end, args, parent_has_explicit_index, st) ==
  IF st.err # "none" \/ ~(st.ptr < end) THEN st
  ELSE The({ parse_format_spec_loop(f, begin, end, args, parent_has_explicit_index, next)
             : next \in {parse_format_spec_step(f, begin, end, args,
                                                parent_has_explicit_index, st)} })

\* parse_format_spec_with_args on the spec [begin, end): the spec it
\* returns, the auto_index it leaves and the format_error it threw
parse_format_spec_with_args(f, begin, end, args, auto_index0, parent_has_explicit_index) ==
  parse_format_spec_loop(f, begin, end, args, parent_has_explicit_index,
    spec_state(begin, [format_spec EXCEPT !.fmt_beg = begin, !.fmt_end = end],
               auto_index0, "none"))

----------------------------------------------------------------------------
(* format.hh: format_to *)

\* the scan for the next '{' or '}' from ptr
find_next_special(f, p) ==
  LET RECURSIVE scan(_)
      scan(q) == IF q < Len(f) + 1 /\ f[q] # "{" /\ f[q] # "}" THEN scan(q + 1) ELSE q
  IN scan(p)

\* the '{' test read as "never an escape"
escaped_open_never(f, p) == FALSE
\* `ptr + 1 < end && ptr[1] == '{'` at a '{'
escaped_open(f, p) == p + 1 < Len(f) + 1 /\ f[p + 1] = "{"
\* `ptr + 1 < end && ptr[1] == '}'` at a '}'
escaped_close(f, p) == p + 1 < Len(f) + 1 /\ f[p + 1] = "}"

\* the matching loop stopping at the first '}' whatever the depth
find_placeholder_end_flat(f, p) ==
  LET RECURSIVE scan(_)
      scan(q) ==
        IF q < Len(f) + 1
          THEN IF f[q] = "}" THEN [placeholder_end |-> q + 1, brace_level |-> 0]
               ELSE scan(q + 1)
          ELSE [placeholder_end |-> q, brace_level |-> 1]
  IN scan(p + 1)
\* the brace_level loop from the '{' at p: the pointer it stops at and the level left
find_placeholder_end(f, p) ==
  LET RECURSIVE scan(_, _)
      scan(placeholder_end, brace_level) ==
        IF placeholder_end < Len(f) + 1 /\ brace_level > 0
          THEN scan(placeholder_end + 1,
                    IF f[placeholder_end] = "{" THEN brace_level + 1
                    ELSE IF f[placeholder_end] = "}" THEN brace_level - 1
                    ELSE brace_level)
          ELSE [placeholder_end |-> placeholder_end, brace_level |-> brace_level]
  IN scan(p + 1, 1)

\* the search for the ':' outside nested braces in [format_start, format_end)
find_colon(f, format_start, format_end) ==
  LET RECURSIVE scan(_, _)
      scan(colon, nested_level) ==
        IF ~(colon < format_end) THEN colon
        ELSE IF f[colon] = "{" THEN scan(colon + 1, nested_level + 1)
        ELSE IF f[colon] = "}" THEN scan(colon + 1, nested_level - 1)
        ELSE IF f[colon] = ":" /\ nested_level = 0 THEN colon
        ELSE scan(colon + 1, nested_level)
  IN scan(format_start, 0)

\* what one pass of the loop of format_to leaves
iteration_result(p, put, auto_index0, e) ==
  [ptr |-> p, put |-> put, auto_index |-> auto_index0, err |-> e]

\* the directive branch of format_to, ptr = p at a '{' that is not an
\* escape.  pe is where the brace_level loop stopped, ix what
\* parse_argument_index gave, sp the parsed spec, d what the dispatch put.
format_directive(f, args, p, auto_index0) ==
  The({
    IF pe.brace_level > 0 THEN iteration_result(p, <<>>, auto_index0, "unclosed_brace")
    ELSE The({ The({
      IF ix.err # "none" THEN iteration_result(p, <<>>, ix.auto_index, ix.err)
      ELSE The({
        IF sp.err # "none" THEN iteration_result(p, <<>>, sp.auto_index, sp.err)
        ELSE IF ix.arg_index >= Len(args)
          THEN iteration_result(p, <<>>, sp.auto_index, "argument_index_out_of_range")
        ELSE The({ iteration_result(pe.placeholder_end, d.text, sp.auto_index, d.err)
                   : d \in {format_arg_dispatch(args, ix.arg_index, sp.spec)} })
        : sp \in {IF colon < pe.placeholder_end - 1
                    THEN parse_format_spec_with_args(f, colon + 1, pe.placeholder_end - 1,
                           args, ix.auto_index, ix.has_explicit_index)
                    ELSE [spec |-> format_spec, auto_index |-> ix.auto_index,
                          err |-> "none"]} })
      : ix \in {parse_argument_index(f, p + 1,
                  IF colon < pe.placeholder_end - 1 THEN colon
                  ELSE pe.placeholder_end - 1,
                  auto_index0)} })
      : colon \in {find_colon(f, p + 1, pe.placeholder_end - 1)} })
    : pe \in {find_placeholder_end(f, p)} })

\* the pass putting what the directive renders before the literal run
format_to_iteration_rendering_first(f, args, p0, auto_index0) ==
  The({
    IF p >= Len(f) + 1 THEN iteration_result(p, SubSeq(f, p0, p - 1), auto_index0, "none")
    ELSE IF f[p] = "{" THEN
      IF escaped_open(f, p)
        THEN iteration_result(p + 2, SubSeq(f, p0, p - 1) \o <<"{">>, auto_index0, "none")
        ELSE The({ iteration_result(d.ptr, d.put \o SubSeq(f, p0, p - 1),
                                    d.auto_index, d.err)
                   : d \in {format_directive(f, args, p, auto_index0)} })
    ELSE
      IF escaped_close(f, p)
        THEN iteration_result(p + 2, SubSeq(f, p0, p - 1) \o <<"}">>, auto_index0, "none")
        ELSE iteration_result(p, SubSeq(f, p0, p - 1), auto_index0,
                              "unmatched_closing_brace")
    : p \in {find_next_special(f, p0)} })

\* the pass leaving ptr on the first brace of an escape "{{"
format_to_iteration_escape_in_place(f, args, p0, auto_index0) ==
  The({
    IF p >= Len(f) + 1 THEN iteration_result(p, SubSeq(f, p0, p - 1), auto_index0, "none")
    ELSE IF f[p] = "{" THEN
      IF escaped_open(f, p)
        THEN iteration_result(p, SubSeq(f, p0, p - 1) \o <<"{">>, auto_index0, "none")
        ELSE The({ iteration_result(d.ptr, SubSeq(f, p0, p - 1) \o d.put,
                                    d.auto_index, d.err)
                   : d \in {format_directive(f, args, p, auto_index0)} })
    ELSE
      IF escaped_close(f, p)
        THEN iteration_result(p + 2, SubSeq(f, p0, p - 1) \o <<"}">>, auto_index0, "none")
        ELSE iteration_result(p, SubSeq(f, p0, p - 1), auto_index0,
                              "unmatched_closing_brace")
    : p \in {find_next_special(f, p0)} })

\* one pass of `while (ptr < end)` in format_to, entered with ptr = p0;
\* p is next_special, d what the directive branch leaves
format_to_iteration(f, args, p0, auto_index0) ==
  The({
    IF p >= Len(f) + 1 THEN iteration_result(p, SubSeq(f, p0, p - 1), auto_index0, "none")
    ELSE IF f[p] = "{" THEN
      IF escaped_open(f, p)
        THEN iteration_result(p + 2, SubSeq(f, p0, p - 1) \o <<"{">>, auto_index0, "none")
        ELSE The({ iteration_result(d.ptr, SubSeq(f, p0, p - 1) \o d.put,
                                    d.auto_index, d.err)
                   : d \in {format_directive(f, args, p, auto_index0)} })
    ELSE
      IF escaped_close(f, p)
        THEN iteration_result(p + 2, SubSeq(f, p0, p - 1) \o <<"}">>, auto_index0, "none")
        ELSE iteration_result(p, SubSeq(f, p0, p - 1), auto_index0,
                              "unmatched_closing_brace")
    : p \in {find_next_special(f, p0)} })

----------------------------------------------------------------------------
(* The formatting calls the model makes *)

\* the bytes templates are made of
TemplateAlphabet == {"{", "}", ":", "0", "a"}
RECURSIVE TemplatesOfLen(_)
TemplatesOfLen(k) ==
  IF k = 0 THEN {<<>>}
  ELSE {t \o <<c>> : t \in TemplatesOfLen(k - 1), c \in TemplateAlphabet}
Templates == UNION {TemplatesOfLen(k) : k \in 0..MaxFmtLen}

\* a `short` argument: formatter<short> takes it as `int value`
ShortArg(v) == [kind |-> "int", T |-> int_t, v |-> v, s |-> <<>>, x |-> Zero]
\* a str::u8v argument
StringArg(s) == [kind |-> "str", T |-> int_t, v |-> 0, s |-> s, x |-> Zero]
\* a `const void *` argument
PointerArg(addr) == [kind |-> "ptr", T |-> uintptr_t, v |-> addr, s |-> <<>>, x |-> Zero]
\* a double argument
DoubleArg(x) == [kind |-> "float", T |-> int_t, v |-> 0, s |-> <<>>, x |-> x]
ArgLists == {<<>>, <<ShortArg(3)>>, <<ShortArg(3), ShortArg(-12)>>}
FreeCalls == {[fmt |-> f, args |-> a] : f \in Templates, a \in ArgLists}

\* one directive: '{', an index text, a spec text (empty or from ':'), '}'
Directive(index, spec_text) == <<"{">> \o index \o spec_text \o <<"}">>
SpecText(fill_align, sign, alternate, width, precision, type) ==
  <<":">> \o fill_align \o sign \o alternate \o width \o precision \o type

\* directives whose width and precision are literals or nested references,
\* alone or followed by a plain directive
IndexTexts == {<<>>, <<"0">>, <<"1">>, <<"2">>}
NestedWidthTexts ==
  {<<>>, <<"4">>, <<"{", "}">>, <<"{", "0", "}">>, <<"{", "1", "}">>, <<"{", "2", "}">>}
NestedPrecisionTexts ==
  {<<>>, <<".", "2">>, <<".", "{", "}">>, <<".", "{", "1", "}">>, <<".", "{", "2", "}">>}
FollowingTexts == {<<>>, <<"{", "}">>, <<"{", "0", "}">>, <<"{", "1", "}">>, <<"{", "3", "}">>}
NestedTemplates ==
  {Directive(i, SpecText(<<>>, <<>>, <<>>, w, p, <<>>)) \o n
     : i \in IndexTexts, w \in NestedWidthTexts, p \in NestedPrecisionTexts,
       n \in FollowingTexts}
NestedArgLists ==
  {<<ShortArg(5), ShortArg(4)>>,
   <<StringArg(<<"a", "b", "c", "d">>), ShortArg(6), ShortArg(2), ShortArg(7)>>,
   <<ShortArg(6), StringArg(<<"a", "b", "c", "d">>), ShortArg(2)>>,
   <<ShortArg(2), ShortArg(-3), StringArg(<<"a", "b", "c">>)>>,
   <<StringArg(<<"a", "b">>)>>}
NestedCalls == {[fmt |-> f, args |-> a] : f \in NestedTemplates, a \in NestedArgLists}

\* widths and precisions at and just above the ceilings, written as digit
\* runs or taken from an argument
CeilingTemplates ==
  {Directive(i, SpecText(<<>>, <<>>, <<>>, w, <<>>, <<>>))
     : i \in {<<>>, <<"0">>},
       w \in {Decimal(MAX_WIDTH), Decimal(MAX_WIDTH + 1), <<"{", "}">>, <<"{", "1", "}">>}}
  \cup
  {Directive(i, SpecText(<<>>, <<>>, <<>>, <<>>, <<".">> \o p, <<>>))
     : i \in {<<>>, <<"0">>},
       p \in {Decimal(MAX_PRECISION), Decimal(MAX_PRECISION + 1), <<"{", "}">>, <<"{", "1", "}">>}}
CeilingArgLists ==
  {<<a, ShortArg(n)>>
     : a \in {ShortArg(3), StringArg(<<"a", "b">>)},
       n \in {MAX_PRECISION, MAX_PRECISION + 1, MAX_WIDTH, MAX_WIDTH + 1}}
CeilingCalls == {[fmt |-> f, args |-> a] : f \in CeilingTemplates, a \in CeilingArgLists}

\* one directive on one argument.  The texts of its parts:
FillAlignTexts ==
  {<<>>, <<"<">>, <<">">>, <<"^">>, <<"*", "<">>, <<"*", ">">>, <<"*", "^">>}
SignTexts == {<<>>, <<"+">>, <<"-">>, <<" ">>}
AlternateTexts == {<<>>, <<"#">>}
WidthTexts == {<<>>, <<"0">>, <<"1">>, <<"6">>, <<"8">>}
PrecisionTexts == {<<>>, <<".", "2">>}
TypeTags == {"d", "x", "X", "o", "b", "B", "f", "e", "g", "s", "p", "q"}

IntegerArgs == {ShortArg(0), ShortArg(3), ShortArg(-12), ShortArg(255)}
StringArgs == {StringArg(<<"a", "b", "c">>), StringArg(<<>>)}
PointerArgs == {PointerArg(0), PointerArg(10), PointerArg(48879)}
DoubleArgs ==
  {DoubleArg(Zero), DoubleArg(Dec(FALSE, 3, 0)), DoubleArg(Dec(TRUE, 3, 0)),
   DoubleArg(Dec(FALSE, 25, -1)), DoubleArg(Dec(TRUE, 25, -1)),
   DoubleArg(Dec(FALSE, 314159, -5)), DoubleArg(Dec(FALSE, 1, 7))}

\* every type tag on every kind of argument
TypeCalls ==
  {[fmt |-> Directive(<<>>, SpecText(<<>>, <<>>, <<>>, <<>>, <<>>, <<t>>)), args |-> <<a>>]
     : t \in TypeTags,
       a \in IntegerArgs \cup StringArgs \cup PointerArgs \cup DoubleArgs}

\* every fill, alignment, width and precision on a string, a pointer, an
\* integer and a double
AlignCalls ==
  {[fmt |-> Directive(<<>>, SpecText(fa, <<>>, <<>>, w, p, t)), args |-> <<a>>]
     : fa \in FillAlignTexts, w \in WidthTexts, p \in PrecisionTexts,
       t \in {<<>>, <<"s">>, <<"p">>, <<"f">>},
       a \in StringArgs \cup PointerArgs
              \cup {ShortArg(3), DoubleArg(Dec(FALSE, 314159, -5))}}

\* every sign flag, with and without '#', a width, a precision and a
\* numeric type tag, on the integers and the doubles
SignCalls ==
  {[fmt |-> Directive(<<>>, SpecText(<<>>, sg, al, w, p, t)), args |-> <<a>>]
     : sg \in SignTexts, al \in AlternateTexts, w \in {<<>>, <<"6">>},
       p \in PrecisionTexts, t \in {<<>>, <<"d">>, <<"x">>, <<"f">>, <<"e">>, <<"g">>},
       a \in IntegerArgs \cup DoubleArgs}

\* a fill character that another part of the grammar also uses, before an
\* alignment, followed or not by a width, a precision or a type tag
FillChars == {"*", "+", "-", " ", "#", ".", "5", "x"}
AlignChars == {"<", ">", "^"}
RestTexts == {<<>>, <<"6">>, <<".", "2">>, <<"d">>}
FillCalls ==
  {[fmt |-> Directive(<<>>, <<":", fill, align>> \o rest), args |-> <<a>>]
     : fill \in FillChars, align \in AlignChars, rest \in RestTexts,
       a \in {ShortArg(255), StringArg(<<"a", "b", "c">>)}}

FormatCalls ==
  FreeCalls \cup NestedCalls \cup CeilingCalls \cup TypeCalls \cup AlignCalls \cup SignCalls
    \cup FillCalls

\* format_to(out, fmt, args...) is entered on a fresh sink
FormatTo ==
  /\ pc = "idle"
  /\ \E call \in FormatCalls :
       /\ fmt' = call.fmt
       /\ fargs' = call.args
       /\ pc' = IF 1 < Len(call.fmt) + 1 THEN "loop" ELSE "done"
  /\ ptr' = 1
  /\ out' = <<>>
  /\ auto_index' = 0
  /\ err' = "none"
  /\ UNCHANGED ivars
  /\ UNCHANGED flvars
  /\ UNCHANGED cvars

\* one pass of the loop of format_to; a format_error leaves the call
FormatToIteration ==
  /\ pc = "loop"
  /\ \E r \in {format_to_iteration(fmt, fargs, ptr, auto_index)} :
       /\ ptr' = r.ptr
       /\ out' = out \o r.put
       /\ auto_index' = r.auto_index
       /\ err' = r.err
       /\ pc' = IF r.err # "none" THEN "error"
                ELSE IF r.ptr < Len(fmt) + 1 THEN "loop" ELSE "done"
  /\ UNCHANGED <<fmt, fargs>>
  /\ UNCHANGED ivars
  /\ UNCHANGED flvars
  /\ UNCHANGED cvars

\* the call has returned or thrown and the caller has looked at the sink
FormatReturn ==
  /\ pc \in {"done", "error"}
  /\ pc' = "idle"
  /\ fmt' = <<>>
  /\ fargs' = <<>>
  /\ ptr' = 1
  /\ out' = <<>>
  /\ auto_index' = 0
  /\ err' = "none"
  /\ UNCHANGED ivars
  /\ UNCHANGED flvars
  /\ UNCHANGED cvars

NextFmt == FormatTo \/ FormatToIteration \/ FormatReturn
SpecFmt == Init /\ [][NextFmt]_vars

----------------------------------------------------------------------------
(* Two callers at once *)

\* Two threads each make one call on a buffer of their own.  The buffers
\* are ConcBuf bytes each and lie side by side in one address space: the
\* buffer of thread t is the addresses Base(t) + 1 .. Base(t) + ConcBuf, with
\* as many bytes of other memory before the first and after the second.  A
\* call that stores bytes (ftoss, itoss) makes its stores one at a time, in
\* the order the code makes them; a call that only reads (sstoi, sstof,
\* format) is one step.

\* format(v): the address of `static format_spec spec`, the one object the
\* calls of every thread share; it is constant-initialised and only read
static_format_spec == 3 * ConcBuf + 1

\* the stores of a call on the buffer at base, in order: [a, byte]
ConcStores(call, base) ==
  IF call.kind = "ftoss"
    THEN The({ [i \in 1..Len(r.stored) |-> [a |-> base + i, byte |-> r.stored[i]]]
               : r \in {ftoss_pack(call.n, call.value, call.format, call.precision,
                                   FALSE)} })
  ELSE IF call.kind = "itoss"
    THEN The({ [i \in 1..Len(r.written)
                  |-> [a |-> base + call.n + 1 - i,
                       byte |-> r.written[Len(r.written) + 1 - i]]]
               : r \in {from_integer(call.value, 10, FALSE, FALSE, int16_t, call.n)} })
  ELSE <<>>

\* what a storing call returns: the span, with the bytes memory holds there
\* when the call returns
ConcReturned(call, base, mem) ==
  IF call.kind = "ftoss"
    THEN The({ [null |-> FALSE, at |-> 0, size |-> r.size,
                bytes |-> [i \in 1..r.size |-> mem[base + i]]]
               : r \in {ftoss_pack(call.n, call.value, call.format, call.precision,
                                   FALSE)} })
  ELSE The({ IF r.null THEN [null |-> TRUE, at |-> 0, size |-> 0, bytes |-> <<>>]
             ELSE [null |-> FALSE, at |-> r.ptr, size |-> r.size,
                   bytes |-> [i \in 1..r.size |-> mem[base + r.ptr + i]]]
             : r \in {from_integer(call.value, 10, FALSE, FALSE, int16_t, call.n)} })

\* the results a reading call can return on the span [at, at + len) of the
\* buffer at base, and the addresses it reads
ConcRead(call, base, mem) ==
  LET first == base + call.at
      s == [i \in 1..call.len |-> mem[first + i]]
  IN IF call.kind = "sstoi"
       THEN {[result |-> r, returned |-> TRUE,
              reads |-> {first + i : i \in 1..(IF r.ptr < call.len THEN r.ptr ELSE call.len)}]
               : r \in {sstoi(s, 10, int16_t)}}
     ELSE IF call.kind = "sstof"
       THEN {[result |-> [ptr |-> r.ptr, ec |-> r.ec, value |-> r.value],
              returned |-> r.returned,
              reads |-> {first + i : i \in 1..r.rd}]
               : r \in sstof(s, <<mem[first + call.len + 1], mem[first + call.len + 2]>>)}
     ELSE {[result |-> format_arg(call.arg, format_spec), returned |-> TRUE,
            reads |-> {static_format_spec}]}

IsStoring(call) == call.kind \in {"ftoss", "itoss"}

\* The calls a thread makes: encodings that fit their buffer and encodings
\* that do not, decodings of a span at the start or at the end of the
\* buffer, and format(v).
ConcFtossCalls ==
  {[kind |-> "ftoss", value |-> v, format |-> f, precision |-> p, n |-> n]
     : v \in {Zero, Dec(FALSE, 12, 0), Dec(TRUE, 25, -1)}, f \in {"fixed", "general"},
       p \in {0, 2}, n \in {2, ConcBuf}}
ConcItossCalls ==
  {[kind |-> "itoss", value |-> v, n |-> n] : v \in {0, 7, -12, 1234}, n \in {2, ConcBuf}}
ConcSpans(kind, texts) ==
  UNION {{[kind |-> kind, text |-> s, len |-> Len(s), at |-> at]
            : at \in {0, ConcBuf - Len(s)}} : s \in texts}
ConcSstoiCalls == ConcSpans("sstoi", {<<"7">>, <<"-", "1", "2">>, <<"1", "2">>})
ConcSstofCalls ==
  ConcSpans("sstof", {<<"1", "e", "-", "1">>, <<"i", "n", "f">>, <<"2", ".", "5">>})
ConcFormatCalls ==
  {[kind |-> "format", arg |-> a] : a \in {ShortArg(3), StringArg(<<"a", "b">>)}}
ConcCalls ==
  ConcFtossCalls \cup ConcItossCalls \cup ConcSstoiCalls \cup ConcSstofCalls
    \cup ConcFormatCalls

\* the memory the callers prepared: the text of a decoding call in its span,
\* zero bytes elsewhere
SpanByte(call, base, a) ==
  IF call.kind \in {"sstoi", "sstof"} /\ a > base + call.at /\ a <= base + call.at + call.len
    THEN call.text[a - base - call.at] ELSE NUL
PreparedMemory(calls) ==
  [a \in Addresses |->
     IF a > Base(2) /\ a <= Base(2) + ConcBuf THEN SpanByte(calls[2], Base(2), a)
     ELSE IF a > Base(1) /\ a <= Base(1) + ConcBuf THEN SpanByte(calls[1], Base(1), a)
     ELSE NUL]

\* the two threads are handed their calls and buffers
ConcCall ==
  /\ \A t \in Threads : cpc[t] = "idle"
  /\ \E c1 \in ConcCalls, c2 \in ConcCalls :
       /\ ccall' = <<c1, c2>>
       /\ cmem' = PreparedMemory(<<c1, c2>>)
  /\ cpc' = [t \in Threads |-> "running"]
  /\ cpos' = [t \in Threads |-> 0]
  /\ cres' = [t \in Threads |-> NoResult]
  /\ cacc' = {}
  /\ UNCHANGED <<ivars, flvars, fvars>>

\* thread t makes the next store of its call
ConcStore(t) ==
  /\ cpc[t] = "running"
  /\ IsStoring(ccall[t])
  /\ \E stores \in {ConcStores(ccall[t], Base(t))} :
       /\ cpos[t] < Len(stores)
       /\ cmem' = [cmem EXCEPT ![stores[cpos[t] + 1].a] = stores[cpos[t] + 1].byte]
       /\ cacc' = cacc \cup {[t |-> t, a |-> stores[cpos[t] + 1].a, wr |-> TRUE]}
  /\ cpos' = [cpos EXCEPT ![t] = @ + 1]
  /\ UNCHANGED <<ccall, cpc, cres>>
  /\ UNCHANGED <<ivars, flvars, fvars>>

\* the storing call of thread t returns its span; after a store outside the
\* buffer, which is undefined behaviour, it may also not return
ConcReturn(t) ==
  /\ cpc[t] = "running"
  /\ IsStoring(ccall[t])
  /\ \E stores \in {ConcStores(ccall[t], Base(t))} :
       /\ cpos[t] = Len(stores)
       /\ \E ended \in {"done"} \cup
                       (IF \E i \in 1..Len(stores) :
                             \/ stores[i].a <= Base(t)
                             \/ stores[i].a > Base(t) + ccall[t].n
                          THEN {"lost"} ELSE {}) :
            cpc' = [cpc EXCEPT ![t] = ended]
  /\ cres' = [cres EXCEPT ![t] = ConcReturned(ccall[t], Base(t), cmem)]
  /\ UNCHANGED <<ccall, cmem, cpos, cacc>>
  /\ UNCHANGED <<ivars, flvars, fvars>>

\* thread t makes its reading call
ConcReadCall(t) ==
  /\ cpc[t] = "running"
  /\ ~IsStoring(ccall[t])
  /\ \E o \in ConcRead(ccall[t], Base(t), cmem) :
       /\ cres' = [cres EXCEPT ![t] = o.result]
       /\ cpc' = [cpc EXCEPT ![t] = IF o.returned THEN "done" ELSE "lost"]
       /\ cacc' = cacc \cup {[t |-> t, a |-> a, wr |-> FALSE] : a \in o.reads}
  /\ UNCHANGED <<ccall, cmem, cpos>>
  /\ UNCHANGED <<ivars, flvars, fvars>>

\* both threads are through: the callers drop the buffers
ConcJoin ==
  /\ \A t \in Threads : cpc[t] \in {"done", "lost"}
  /\ cpc' = [t \in Threads |-> "idle"]
  /\ ccall' = [t \in Threads |-> NoCall]
  /\ cmem' = [a \in Addresses |-> NUL]
  /\ cpos' = [t \in Threads |-> 0]
  /\ cres' = [t \in Threads |-> NoResult]
  /\ cacc' = {}
  /\ UNCHANGED <<ivars, flvars, fvars>>

NextConc ==
  \/ ConcCall
  \/ \E t \in Threads : ConcStore(t) \/ ConcReturn(t) \/ ConcReadCall(t)
  \/ ConcJoin
SpecConc == Init /\ [][NextConc]_vars

----------------------------------------------------------------------------
(* Reference notions the properties are stated with *)

ValidBase(base) == 2 <= base /\ base <= 36
Abs(v) == IF v < 0 THEN -v ELSE v

\* is c a digit of the given base
IsDigitOf(c, base) == char_to_digit(c) >= 0 /\ char_to_digit(c) < base
\* where the digits of a numeral start: after one leading sign, if any
BodyStart(text) == IF Len(text) > 0 /\ text[1] \in {"-", "+"} THEN 2 ELSE 1
\* the position right after the longest run of base digits that starts at p
RECURSIVE RunEnd(_, _, _)
RunEnd(text, p, base) ==
  IF p <= Len(text) /\ IsDigitOf(text[p], base) THEN RunEnd(text, p + 1, base) ELSE p

\* sign, then base prefix, then digits
PrefixOf(base, uppercase) ==
  IF base = 16 THEN (IF uppercase THEN <<"0", "X">> ELSE <<"0", "x">>)
  ELSE IF base = 2 THEN (IF uppercase THEN <<"0", "B">> ELSE <<"0", "b">>)
  ELSE IF base = 8 THEN <<"0">>
  ELSE <<>>
Rendering(value, base, uppercase, alternate) ==
  (IF value < 0 THEN <<"-">> ELSE <<>>)
    \o (IF alternate THEN PrefixOf(base, uppercase) ELSE <<>>)
    \o Numeral(Abs(value), base, uppercase)
Wanted == Rendering(itoss_in.value, itoss_in.base, itoss_in.uppercase, itoss_in.alternate)

----------------------------------------------------------------------------
(* Properties of the integer codec *)

\* C1: decoding with sstoi, in the same base and type, the text itoss produced
\* without a base prefix returns the encoded value, error none, and the end of
\* the text.
C1_RoundTrip ==
  (op = "roundtrip" /\ ~itoss_in.alternate) =>
    /\ sstoi_out.ec = "none"
    /\ sstoi_out.value = itoss_in.value
    /\ sstoi_out.ptr = Len(sstoi_in.text) + 1

C3_NullIffTooSmall ==
  (op = "itoss") =>
    /\ itoss_out.lo >= 0
    /\ itoss_out.returned =>
         /\ itoss_out.null <=> (~ValidBase(itoss_in.base) \/ itoss_in.n < Len(Wanted))
         /\ ~itoss_out.null =>
              (itoss_out.ptr >= 0 /\ itoss_out.ptr + itoss_out.size <= itoss_in.n)

\* C4: sstoi reports invalid_argument whenever the span, after at most one
\* leading sign, does not begin with a digit of the requested base.
C4_StrictGrammar ==
  (op = "sstoi" /\ ValidBase(sstoi_in.base)
     /\ RunEnd(sstoi_in.text, BodyStart(sstoi_in.text), sstoi_in.base)
          = BodyStart(sstoi_in.text)) =>
    sstoi_out.ec = "invalid_argument"

\* C5: the end position sstoi returns is right after the longest run of digits
\* of the requested base that follows the optional sign, overflow or not.
C5_EndAfterDigitRun ==
  (op = "sstoi" /\ ValidBase(sstoi_in.base)) =>
    sstoi_out.ptr = RunEnd(sstoi_in.text, BodyStart(sstoi_in.text), sstoi_in.base)

\* C6: a numeral with a leading '-' decoded into an unsigned type reports
\* invalid_argument, whatever follows the sign.
C6_MinusOnUnsigned ==
  (op = "sstoi" /\ ValidBase(sstoi_in.base) /\ ~sstoi_in.T.signed
     /\ Len(sstoi_in.text) > 0 /\ sstoi_in.text[1] = "-") =>
    sstoi_out.ec = "invalid_argument"

----------------------------------------------------------------------------
(* Reference reading of a template, for the properties of format_to *)

\* the '}' that closes a '{' opened before p at the given depth, 0 if none
RECURSIVE MatchFrom(_, _, _)
MatchFrom(f, p, depth) ==
  IF p > Len(f) THEN 0
  ELSE IF f[p] = "{" THEN MatchFrom(f, p + 1, depth + 1)
  ELSE IF f[p] = "}" THEN (IF depth = 1 THEN p ELSE MatchFrom(f, p + 1, depth - 1))
  ELSE MatchFrom(f, p + 1, depth)
ClosingBraceOf(f, q) == MatchFrom(f, q + 1, 1)

Token(kind, at, to) == [kind |-> kind, at |-> at, to |-> to]

\* the template from p on as a sequence of literal bytes, escapes and
\* directives; the sequence ends with the first brace that is neither
RECURSIVE Tokens(_, _)
Tokens(f, p) ==
  IF p > Len(f) THEN <<>>
  ELSE IF f[p] = "{" THEN
    IF p < Len(f) /\ f[p + 1] = "{"
      THEN <<Token("escape", p, p + 1)>> \o Tokens(f, p + 2)
    ELSE IF ClosingBraceOf(f, p) = 0 THEN <<Token("unclosed", p, Len(f))>>
    ELSE <<Token("directive", p, ClosingBraceOf(f, p))>>
           \o Tokens(f, ClosingBraceOf(f, p) + 1)
  ELSE IF f[p] = "}" THEN
    IF p < Len(f) /\ f[p + 1] = "}"
      THEN <<Token("escape", p, p + 1)>> \o Tokens(f, p + 2)
      ELSE <<Token("lone_close", p, p)>>
  ELSE <<Token("text", p, p)>> \o Tokens(f, p + 1)

TokenSet(f) == {Tokens(f, 1)[i] : i \in 1..Len(Tokens(f, 1))}
Directives(f) == {t \in TokenSet(f) : t.kind = "directive"}
BadBraces(f) == {t \in TokenSet(f) : t.kind \in {"lone_close", "unclosed"}}

\* the index-spec of a directive is empty / is a digit run
RECURSIVE DigitsEnd(_, _)
DigitsEnd(f, p) == IF p <= Len(f) /\ IsDigitChar(f[p]) THEN DigitsEnd(f, p + 1) ELSE p
AutoIndexed(f, t) == f[t.at + 1] \in {"}", ":"}
ExplicitlyIndexed(f, t) ==
  /\ DigitsEnd(f, t.at + 1) > t.at + 1
  /\ f[DigitsEnd(f, t.at + 1)] \in {"}", ":"}
MixedIndexing(f) ==
  /\ BadBraces(f) = {}
  /\ \E t \in Directives(f) : AutoIndexed(f, t)
  /\ \E t \in Directives(f) : ExplicitlyIndexed(f, t)

\* a template of literal bytes and escapes only, and that text with each
\* escape collapsed to its brace
EscapesOnly(f) == \A t \in TokenSet(f) : t.kind \in {"text", "escape"}
Collapsed(f) == [i \in 1..Len(Tokens(f, 1)) |-> f[Tokens(f, 1)[i].at]]

\* the errors a directive raises about its own content
DirectiveErrors ==
  {"invalid_argument_index", "argument_index_out_of_range", "width_too_large",
   "precision_too_large", "cannot_convert_index", "invalid_value_from_argument"}

CallEnded == pc \in {"done", "error"}

\* C8: a formatting call whose template holds both an auto-indexed and an
\* explicitly indexed directive does not complete: it ends in an error and
\* has rendered nothing, whichever style comes first.
C8_MixedIndexingRejected ==
  (CallEnded /\ MixedIndexing(fmt)) => (pc = "error" /\ out = <<>>)

\* C9: when the template has a '}' in literal position that does not start
\* a "}}" escape, or a '{' that starts no "{{" escape and has no matching
\* '}' at its depth, the call ends in an error; the error is raised at that
\* brace and is unmatched_closing_brace (resp. unclosed_brace), unless a
\* directive before the brace has already raised an error of its own.
C9_BraceErrors ==
  CallEnded =>
    \A t \in BadBraces(fmt) :
      /\ pc = "error"
      /\ ptr <= t.at
      /\ ptr = t.at => err = (IF t.kind = "lone_close" THEN "unmatched_closing_brace"
                              ELSE "unclosed_brace")
      /\ ptr < t.at => err \in DirectiveErrors

\* a '{' holding a complete nested "{}" but no '}' of its own is unclosed
C9_Witness ==
  /\ pc = "error"
  /\ fmt = <<"a", "{", ":", "{", "}">>
  /\ err = "unclosed_brace"
  /\ ptr = 2

\* C10: a template made only of literal bytes and "{{" / "}}" escapes
\* renders, whatever the arguments, to that text with every escape
\* collapsed to one brace, without error and without consuming an argument.
C10_Escapes ==
  (CallEnded /\ EscapesOnly(fmt)) =>
    /\ pc = "done"
    /\ err = "none"
    /\ out = Collapsed(fmt)
    /\ auto_index = 0

\* "{{}}" with zero arguments has rendered "{}"
C10_Witness ==
  /\ pc = "done"
  /\ fmt = <<"{", "{", "}", "}">>
  /\ fargs = <<>>
  /\ out = <<"{", "}">>

----------------------------------------------------------------------------
(* Reference notions for widths, precisions and renderings *)

IsInt(arg) == arg.kind = "int"

\* the text of an argument under an empty spec
PlainText(arg) ==
  IF arg.kind = "int" THEN Rendering(arg.v, 10, FALSE, FALSE) ELSE arg.s

\* a text limited to a precision (a negative precision limits nothing)
Limited(text, precision) ==
  IF precision >= 0 /\ precision < Len(text) THEN SubSeq(text, 1, precision) ELSE text

\* o is the text padded with spaces to the width
PaddedTo(o, text, width) ==
  /\ Len(o) = Max(width, Len(text))
  /\ \E k \in 0..(Len(o) - Len(text)) :
       o = Fill(k, " ") \o text \o Fill(Len(o) - Len(text) - k, " ")

\* out is the owner limited and padded, then the text of the following argument
OwnerThenRest(owner, width, precision, rest) ==
  /\ Len(out) >= Len(rest)
  /\ SubSeq(out, Len(out) - Len(rest) + 1, Len(out)) = rest
  /\ PaddedTo(SubSeq(out, 1, Len(out) - Len(rest)),
              IF owner.kind = "str" THEN Limited(owner.s, precision) ELSE PlainText(owner),
              width)

\* the auto-indexed directive with a nested {} width (wn), a nested {}
\* precision (pn), followed or not (fo) by a plain "{}"
AutoNestedTemplate(wn, pn, fo) ==
  Directive(<<>>, SpecText(<<>>, <<>>, <<>>,
                           IF wn THEN <<"{", "}">> ELSE <<>>,
                           IF pn THEN <<".", "{", "}">> ELSE <<>>, <<>>))
    \o (IF fo THEN <<"{", "}">> ELSE <<>>)

\* C11: in auto-index mode the directive takes argument k (here the first),
\* its nested {} width the next argument, its nested {} precision the one
\* after, and a following {} continues after them; in explicit mode
\* {i:{j}} takes argument j as the width of argument i; the owner is padded
\* to that width and, being a string, limited to that precision.
C11_NestedWidthPrecision ==
  /\ \A wn \in BOOLEAN, pn \in BOOLEAN, fo \in BOOLEAN :
       LET wi == 2
           pi == IF wn THEN 3 ELSE 2
           ni == 2 + (IF wn THEN 1 ELSE 0) + (IF pn THEN 1 ELSE 0)
           need == IF fo THEN ni ELSE ni - 1
       IN (/\ CallEnded
           /\ wn \/ pn
           /\ fmt = AutoNestedTemplate(wn, pn, fo)
           /\ Len(fargs) >= need
           /\ wn => IsInt(fargs[wi])
           /\ pn => IsInt(fargs[pi]))
          => /\ pc = "done"
             /\ OwnerThenRest(fargs[1],
                              IF wn THEN fargs[wi].v ELSE -1,
                              IF pn THEN fargs[pi].v ELSE -1,
                              IF fo THEN PlainText(fargs[ni]) ELSE <<>>)
  /\ \A i \in 0..2, j \in 0..2 :
       (/\ CallEnded
        /\ fmt = Directive(<<digits_lower[i + 1]>>,
                           SpecText(<<>>, <<>>, <<>>, <<"{", digits_lower[j + 1], "}">>,
                                    <<>>, <<>>))
        /\ Len(fargs) > i
        /\ Len(fargs) > j
        /\ IsInt(fargs[j + 1]))
       => /\ pc = "done"
          /\ OwnerThenRest(fargs[i + 1], fargs[j + 1].v, -1, <<>>)

\* "{:{}.{}}{}" on ("abcd", 6, 2, 7): "ab" padded to 6, then "7"
C11_Witness ==
  /\ pc = "done"
  /\ fmt = AutoNestedTemplate(TRUE, TRUE, TRUE)
  /\ fargs = <<StringArg(<<"a", "b", "c", "d">>), ShortArg(6), ShortArg(2), ShortArg(7)>>
  /\ out = <<" ", " ", " ", " ", "a", "b", "7">>

\* the directive "{:W}" / "{:.P}" with the given width or precision text
WidthDirective(w) == Directive(<<>>, SpecText(<<>>, <<>>, <<>>, w, <<>>, <<>>))
PrecisionDirective(p) == Directive(<<>>, SpecText(<<>>, <<>>, <<>>, <<>>, <<".">> \o p, <<>>))

\* C12 for digit runs: a width above 10,000 or a precision above 1,000
\* written in the template fails the call; the ceilings themselves pass.
LiteralCeiling ==
  (CallEnded /\ Len(fargs) >= 1) =>
    /\ \A n \in {MAX_WIDTH, MAX_WIDTH + 1} :
         fmt = WidthDirective(Decimal(n)) =>
           IF n > MAX_WIDTH THEN pc = "error" /\ err = "width_too_large" ELSE pc = "done"
    /\ \A n \in {MAX_PRECISION, MAX_PRECISION + 1} :
         fmt = PrecisionDirective(Decimal(n)) =>
           IF n > MAX_PRECISION THEN pc = "error" /\ err = "precision_too_large"
           ELSE pc = "done"

\* C12 for nested references: the same for a width or precision taken from
\* an argument.
NestedCeiling ==
  (CallEnded /\ Len(fargs) >= 2 /\ IsInt(fargs[2])) =>
    /\ fmt \in {WidthDirective(<<"{", "}">>),
                Directive(<<"0">>, SpecText(<<>>, <<>>, <<>>, <<"{", "1", "}">>, <<>>, <<>>))}
         => IF fargs[2].v > MAX_WIDTH THEN pc = "error" ELSE pc = "done"
    /\ fmt \in {PrecisionDirective(<<"{", "}">>),
                Directive(<<"0">>, SpecText(<<>>, <<>>, <<>>, <<>>, <<".", "{", "1", "}">>, <<>>))}
         => IF fargs[2].v > MAX_PRECISION THEN pc = "error" ELSE pc = "done"

\* C12: every resolved width greater than 10,000 and every resolved
\* precision greater than 1,000 makes the call fail, whether written as a
\* digit run or obtained from a nested argument reference; 10,000 and 1,000
\* themselves are accepted.
C12_SanityCeiling == LiteralCeiling /\ NestedCeiling

\* a directive that is an index text only, and the index it resolves to:
\* the number written, or the count of auto-indexed directives before it
PlainDirective(f, t) == DigitsEnd(f, t.at + 1) = t.to
RECURSIVE DigitsValue(_, _, _)
DigitsValue(f, from, to) ==
  IF from > to THEN 0 ELSE DigitsValue(f, from, to - 1) * 10 + char_to_digit(f[to])
ResolvedIndex(f, t) ==
  IF t.at + 1 = t.to
    THEN Cardinality({u \in Directives(f) : u.at < t.at /\ u.at + 1 = u.to})
    ELSE DigitsValue(f, t.at + 1, t.to - 1)
OutOfRange(f, n) == {t \in Directives(f) : ResolvedIndex(f, t) >= n}

\* the nested references of the templates AutoNestedTemplate and
\* "{i:{j}}" that are in range are taken from integer arguments
NestedInRangeAreInts(indices) ==
  \A j \in indices : j < Len(fargs) => IsInt(fargs[j + 1])

\* C13: when a directive, or a nested width/precision reference, resolves
\* to an index greater than or equal to the number of arguments, also when
\* auto-indexed directives outnumber the arguments, the call ends with
\* argument_index_out_of_range, raised at the first such directive, and
\* nothing is rendered for that directive.
C13_IndexOutOfRange ==
  CallEnded =>
    /\ (\A t \in Directives(fmt) : PlainDirective(fmt, t)) =>
         IF OutOfRange(fmt, Len(fargs)) # {}
           THEN /\ pc = "error"
                /\ err = "argument_index_out_of_range"
                /\ \E t \in OutOfRange(fmt, Len(fargs)) :
                     /\ ptr = t.at
                     /\ \A u \in OutOfRange(fmt, Len(fargs)) : t.at <= u.at
           ELSE BadBraces(fmt) = {} => pc = "done"
    /\ \A wn \in BOOLEAN, pn \in BOOLEAN, fo \in BOOLEAN :
         LET refs == (IF wn THEN 1 ELSE 0) + (IF pn THEN 1 ELSE 0)
         IN (/\ wn \/ pn
             /\ fmt = AutoNestedTemplate(wn, pn, fo)
             /\ NestedInRangeAreInts(1..refs)
             /\ Len(fargs) < refs + 1 + (IF fo THEN 1 ELSE 0))
            => /\ pc = "error"
               /\ err = "argument_index_out_of_range"
               /\ IF Len(fargs) > refs
                    THEN OwnerThenRest(fargs[1],
                                       IF wn THEN fargs[2].v ELSE -1,
                                       IF pn THEN fargs[IF wn THEN 3 ELSE 2].v ELSE -1,
                                       <<>>)
                    ELSE out = <<>>
    /\ \A i \in 0..2, j \in 0..2 :
         (/\ fmt = Directive(<<digits_lower[i + 1]>>,
                             SpecText(<<>>, <<>>, <<>>, <<"{", digits_lower[j + 1], "}">>,
                                      <<>>, <<>>))
          /\ NestedInRangeAreInts({j})
          /\ (i >= Len(fargs) \/ j >= Len(fargs)))
         => /\ pc = "error"
            /\ err = "argument_index_out_of_range"
            /\ out = <<>>

\* "{}{}" on one argument: the first directive renders it, the second
\* raises the error
C13_Witness ==
  /\ pc = "error"
  /\ fmt = <<"{", "}", "{", "}">>
  /\ fargs = <<ShortArg(3)>>
  /\ err = "argument_index_out_of_range"
  /\ ptr = 3
  /\ out = <<"3">>

\* C14: a call that fails with a template-grammar error has appended
\* nothing to the sink of format_to: the sink holds exactly the bytes it
\* held when the call was entered.
C14_NoPartialOutput == pc = "error" => out = <<>>

\* the directive "{:t}" and the type tags defined for each capability
TypeDirective(t) == Directive(<<>>, SpecText(<<>>, <<>>, <<>>, <<>>, <<>>, <<t>>))
IntegerTypeTags == {"d", "D", "x", "X", "o", "b", "B"}
StringTypeTags == {"s"}
PointerTypeTags == {"p"}
FloatTypeTags == {"f", "F", "e", "E", "g", "G"}
DefinedTypeTags(arg) ==
  CASE arg.kind = "int" -> IntegerTypeTags
    [] arg.kind = "str" -> StringTypeTags
    [] arg.kind = "ptr" -> PointerTypeTags
    [] arg.kind = "float" -> FloatTypeTags

\* C15: a directive whose type tag is not one defined for the capability of
\* its argument ends the call in an error; no default rendering is made.
C15_UnknownTypeTag ==
  \A t \in TypeTags :
    (/\ CallEnded
     /\ fmt = TypeDirective(t)
     /\ Len(fargs) = 1
     /\ t \notin DefinedTypeTags(fargs[1]))
    => pc = "error"

\* a content aligned in a width with a fill character, as the alignment
\* step is specified
AlignedText(content, width, align, fill) ==
  IF width <= 0 \/ width <= Len(content) THEN content
  ELSE LET pad == width - Len(content) IN
    CASE align = "<" -> content \o Fill(pad, fill)
      [] align = ">" -> Fill(pad, fill) \o content
      [] align = "^" -> Fill(pad \div 2, fill) \o content \o Fill(pad - pad \div 2, fill)

\* the widths of WidthTexts, -1 standing for no width
WidthTextOf(w) == IF w < 0 THEN <<>> ELSE <<digits_lower[w + 1]>>

\* C18: a pointer under "{:p}", with or without an alignment and a width,
\* renders "0x" followed by the lowercase hexadecimal digits of the address
\* without leading zeros ("0x0" for null), aligned in the width.
C18_PointerRendering ==
  (CallEnded /\ Len(fargs) = 1 /\ fargs[1].kind = "ptr") =>
    /\ fmt = TypeDirective("p") =>
         /\ pc = "done"
         /\ out = <<"0", "x">> \o Numeral(fargs[1].v, 16, FALSE)
    /\ \A al \in {"<", ">", "^"}, w \in {-1, 0, 1, 6, 8} :
         fmt = Directive(<<>>, SpecText(<<al>>, <<>>, <<>>, WidthTextOf(w), <<>>, <<"p">>))
         => /\ pc = "done"
            /\ out = AlignedText(<<"0", "x">> \o Numeral(fargs[1].v, 16, FALSE), w, al, " ")

\* the texts of a fill with an alignment, and of a precision (-1: none)
FillAlignTextOf(fill, align) == IF fill = " " THEN <<align>> ELSE <<fill, align>>
PrecisionTextOf(p) == IF p < 0 THEN <<>> ELSE <<".", digits_lower[p + 1]>>

\* C16: the alignment step emits the content unchanged when the width is
\* <= 0 or <= the content length; otherwise it emits exactly width bytes:
\* the content, unchanged and contiguous, and fill characters, all after it
\* for '<', all before it for '>', floor(pad/2) before and the rest after
\* for '^'.  Checked on a string argument cut to the precision, the content
\* of its directive, and on "{:>8.2f}" with 3.14159.
C16_AlignmentStep ==
  /\ \A fill \in {" ", "*"}, al \in {"<", ">", "^"}, w \in {-1, 0, 1, 6, 8},
        p \in {-1, 2}, t \in {<<>>, <<"s">>} :
       (/\ CallEnded
        /\ fmt = Directive(<<>>, SpecText(FillAlignTextOf(fill, al), <<>>, <<>>,
                                          WidthTextOf(w), PrecisionTextOf(p), t))
        /\ Len(fargs) = 1
        /\ fargs[1].kind = "str")
       => /\ pc = "done"
          /\ out = AlignedText(Limited(fargs[1].s, p), w, al, fill)
  /\ (/\ CallEnded
      /\ fmt = <<"{", ":", ">", "8", ".", "2", "f", "}">>
      /\ fargs = <<DoubleArg(Dec(FALSE, 314159, -5))>>)
     => out = <<" ", " ", " ", " ", "3", ".", "1", "4">>

\* "{:*^6}" on "abc": one fill before, two after
C16_Witness ==
  /\ pc = "done"
  /\ fmt = <<"{", ":", "*", "^", "6", "}">>
  /\ fargs = <<StringArg(<<"a", "b", "c">>)>>
  /\ out = <<"*", "a", "b", "c", "*", "*">>

\* the number an integer or double argument holds is negative
IsNumeric(arg) == arg.kind \in {"int", "float"}
IsNegative(arg) == IF arg.kind = "int" THEN arg.v < 0 ELSE arg.x.neg

\* a sign flag, with or without '#', a precision and a numeric type tag;
\* no width, so that the rendering starts the output
SignDirectives(sg) ==
  {Directive(<<>>, SpecText(<<>>, sg, al, <<>>, p, t))
     : al \in AlternateTexts, p \in PrecisionTexts,
       t \in {<<>>, <<"d">>, <<"x">>, <<"f">>, <<"e">>, <<"g">>}}

\* only negative numbers carry a sign under '-' and under no flag
MinusOnly ==
  (/\ CallEnded
   /\ fmt \in SignDirectives(<<>>) \cup SignDirectives(<<"-">>)
   /\ Len(fargs) = 1
   /\ IsNumeric(fargs[1]))
  => /\ pc = "done"
     /\ Len(out) > 0
     /\ out[1] \notin {"+", " "}
     /\ out[1] = "-" <=> IsNegative(fargs[1])

\* C17: the sign flag controls the sign of integer and floating-point
\* renderings: under '+' every non-negative number starts with '+', under
\* ' ' with a space, and under '-' (the default) only negative numbers
\* carry a sign.
C17_SignFlag ==
  /\ MinusOnly
  /\ \A sg \in {"+", " "} :
       (/\ CallEnded
        /\ fmt \in SignDirectives(<<sg>>)
        /\ Len(fargs) = 1
        /\ IsNumeric(fargs[1]))
       => /\ pc = "done"
          /\ Len(out) > 0
          /\ out[1] = (IF IsNegative(fargs[1]) THEN "-" ELSE sg)

----------------------------------------------------------------------------
(* Properties of ftoss *)

\* C19: ftoss never writes outside the caller's buffer: for every value,
\* style, precision and buffer size, every byte it stores lies within
\* [out_buffer, out_buffer + buffer_size).
C19_FtossWithinBuffer == op = "ftoss" => ftoss_out.hi <= ftoss_in.n

\* where the exponent part of a rendering starts (its 'e'), Len + 1 if none
ExponentAt(text) ==
  IF \E i \in 1..Len(text) : text[i] = "e"
    THEN CHOOSE i \in 1..Len(text) : text[i] = "e"
    ELSE Len(text) + 1

\* a rendering with the trailing zeros of its fractional part removed, and
\* then a bare '.': the digits before the '.' and the exponent part stay
RECURSIVE WithoutFractionZeros(_)
WithoutFractionZeros(mantissa) ==
  IF ~(\E i \in 1..Len(mantissa) : mantissa[i] = ".") THEN mantissa
  ELSE IF mantissa[Len(mantissa)] = "0"
    THEN WithoutFractionZeros(SubSeq(mantissa, 1, Len(mantissa) - 1))
  ELSE IF mantissa[Len(mantissa)] = "." THEN SubSeq(mantissa, 1, Len(mantissa) - 1)
  ELSE mantissa
SameNumberText(text) ==
  WithoutFractionZeros(SubSeq(text, 1, ExponentAt(text) - 1))
    \o SubSeq(text, ExponentAt(text), Len(text))

\* the fixed or scientific rendering the general style strips
Unstripped(value, precision) ==
  IF value.m # 0 /\ ~(exponent_calculator(value) >= -4 /\ exponent_calculator(value) < precision)
    THEN from_float(RoomyFloatBuf, value, "scientific", precision - 1, FALSE).text
    ELSE from_float(RoomyFloatBuf, value, "fixed",
                    IF value.m = 0 THEN precision
                    ELSE Max(precision - Max(exponent_calculator(value) + 1, 0), 0),
                    FALSE).text

\* C20: in the general style the text ftoss returns denotes the same number
\* as the unstripped fixed or scientific rendering: it differs from it only
\* by trailing zeros of the fractional part and a bare '.'; no digit of the
\* integer part and no digit of the exponent is removed.
C20_GeneralStripsFractionOnly ==
  (/\ op = "ftoss"
   /\ ftoss_in.format = "general"
   /\ ftoss_in.n = RoomyFloatBuf)
  => SameNumberText(ftoss_out.text)
       = SameNumberText(Unstripped(ftoss_in.value, Max(ftoss_in.precision, 0)))

\* the case the specification gives: 100.0 with precision 6 renders "100"
HundredAtSix ==
  (/\ op = "ftoss"
   /\ ftoss_in.format = "general"
   /\ ftoss_in.n = RoomyFloatBuf
   /\ ftoss_in.value = Dec(FALSE, 1, 2)
   /\ ftoss_in.precision = 6)
  => ftoss_out.text = <<"1", "0", "0">>

\* the shape of a scientific rendering with p fraction digits: an optional
\* '-', one digit 1..9, '.' and p digits when p > 0, 'e' or 'E', '+' or '-',
\* and two or more exponent digits, the first of three or more not '0'
ScientificShape(text, p) ==
  LET body == IF Len(text) > 0 /\ text[1] = "-" THEN Tail(text) ELSE text
      mlen == IF p > 0 THEN p + 2 ELSE 1
  IN /\ Len(body) >= mlen + 4
     /\ body[1] \in {"1", "2", "3", "4", "5", "6", "7", "8", "9"}
     /\ p > 0 => /\ body[2] = "."
                 /\ \A i \in 3..mlen : IsDigitChar(body[i])
     /\ body[mlen + 1] \in {"e", "E"}
     /\ body[mlen + 2] \in {"+", "-"}
     /\ \A i \in (mlen + 3)..Len(body) : IsDigitChar(body[i])
     /\ Len(body) > mlen + 4 => body[mlen + 3] # "0"

\* C21: in the scientific style, for every non-zero value and precision p,
\* ftoss renders a mantissa with exactly one integer digit in 1..9 ('.' and
\* p digits after it when p > 0), then 'e' or 'E', an explicit '+' or '-',
\* and the exponent magnitude with at least two digits.
C21_ScientificShape ==
  (/\ op = "ftoss"
   /\ ftoss_in.format = "scientific"
   /\ ftoss_in.value.m # 0
   /\ ftoss_in.precision >= 0
   /\ ftoss_in.n = RoomyFloatBuf)
  => ScientificShape(ftoss_out.text, ftoss_in.precision)

\* the case the specification gives: 100000.0 with precision 2 renders
\* "1.00e+05"
HundredThousandAtTwo ==
  (/\ op = "ftoss"
   /\ ftoss_in.format = "scientific"
   /\ ftoss_in.n = RoomyFloatBuf
   /\ ftoss_in.value = Dec(FALSE, 1, 5)
   /\ ftoss_in.precision = 2
   /\ ~ftoss_in.uppercase)
  => ftoss_out.text = <<"1", ".", "0", "0", "e", "+", "0", "5">>

----------------------------------------------------------------------------
(* Properties of sstof *)

\* where the token of an sstof text starts: after an optional sign
TokenStart(text) == IF Len(text) > 0 /\ text[1] \in {"+", "-"} THEN 2 ELSE 1
TextSign(text) == IF Len(text) > 0 /\ text[1] = "-" THEN -1 ELSE 1
StartsWithToken(text, Recognized(_)) ==
  /\ Len(text) >= TokenStart(text) + 2
  /\ Recognized(SubSeq(text, TokenStart(text), TokenStart(text) + 2))
\* the result the claim gives for an inf / nan token
SpecialResult(text, res) ==
  /\ res.returned
  /\ res.ec = "none"
  /\ res.ptr = TokenStart(text) + 3
  /\ IF StartsWithToken(text, is_inf_any_case)
       THEN res.value.class = "inf" /\ res.value.sign = TextSign(text)
       ELSE res.value.class = "nan"

\* C22: sstof recognizes inf and nan in every combination of letter cases,
\* after an optional sign, before any numeric parsing: the value is the
\* signed infinity or NaN, the error is none and the end position is three
\* bytes past the start of the token.
C22_InfNanAnyCase ==
  (/\ op = "sstof"
   /\ \/ StartsWithToken(sstof_in.text, is_inf_any_case)
      \/ StartsWithToken(sstof_in.text, is_nan_any_case))
  => SpecialResult(sstof_in.text, sstof_out)

\* the tokens written in one case, inf INF nan NAN, are recognized
InfNanOneCase ==
  (/\ op = "sstof"
   /\ \/ StartsWithToken(sstof_in.text, is_inf)
      \/ StartsWithToken(sstof_in.text, is_nan))
  => SpecialResult(sstof_in.text, sstof_out)

\* C29: every power-of-ten table lookup sstof makes, for the fraction and
\* for the exponent, uses an index within the table, 0..18, whatever the
\* text, exponents of 19 or more included.
C29_Pow10IndexInTable ==
  op = "sstof"
  => \A i \in 1..Len(sstof_out.lookups) :
       sstof_out.lookups[i].x >= 0 /\ sstof_out.lookups[i].x < POW10_TABLE_SIZE

\* the lookups made for the fraction stay within the table
FractionIndexInTable ==
  op = "sstof"
  => \A i \in 1..Len(sstof_out.lookups) :
       sstof_out.lookups[i].use = "fraction"
       => sstof_out.lookups[i].x >= 0 /\ sstof_out.lookups[i].x < POW10_TABLE_SIZE

----------------------------------------------------------------------------
(* Properties of concurrent calls *)

\* what the call of thread t returns when it runs alone, in the memory the
\* two callers prepared
AloneResults(call, t) ==
  LET mem0 == PreparedMemory(ccall)
      stores == ConcStores(call, Base(t))
      mem1 == [a \in Addresses |->
                 IF \E i \in 1..Len(stores) : stores[i].a = a
                   THEN stores[CHOOSE i \in 1..Len(stores) : stores[i].a = a].byte
                   ELSE mem0[a]]
  IN IF IsStoring(call) THEN {ConcReturned(call, Base(t), mem1)}
     ELSE {o.result : o \in ConcRead(call, Base(t), mem0)}

\* two threads touched one location, one of them storing to it
SharedLocation ==
  \E x \in cacc, y \in cacc : x.t # y.t /\ x.a = y.a /\ (x.wr \/ y.wr)

\* C23: the calls hold no state between them: under every interleaving of
\* two concurrent calls on disjoint buffers and arguments, each call returns
\* what it returns when it runs alone, and no call reads or writes a location
\* another call has written.
C23_CallsIndependent ==
  /\ \A t \in Threads : cpc[t] = "done" => cres[t] \in AloneResults(ccall[t], t)
  /\ ~SharedLocation

\* every access of the call of thread t stays within its buffer
StaysInside(call, t) ==
  IF IsStoring(call)
    THEN \A i \in 1..Len(ConcStores(call, Base(t))) :
           /\ ConcStores(call, Base(t))[i].a > Base(t)
           /\ ConcStores(call, Base(t))[i].a <= Base(t) + call.n
    ELSE \A o \in ConcRead(call, Base(t), PreparedMemory(ccall)) :
           \A a \in o.reads : a = static_format_spec
                              \/ (a > Base(t) /\ a <= Base(t) + ConcBuf)

\* the calls that stay within their buffers are independent
IndependentWithinBuffers ==
  (\A t \in Threads : cpc[t] # "idle" /\ StaysInside(ccall[t], t))
  => C23_CallsIndependent

----------------------------------------------------------------------------
(* Properties of sstoi, continued *)

\* C24: whenever sstoi returns an error code other than none
\* (invalid_argument or result_out_of_range), the output value is zero.
C24_ErrorZeroesValue ==
  (op \in {"sstoi", "roundtrip"} /\ sstoi_out.ec # "none") => sstoi_out.value = 0

\* the errors raised before a byte is read (an empty span, a base outside
\* 2..36) leave the value zero
EarlyErrorZeroesValue ==
  (/\ op \in {"sstoi", "roundtrip"}
   /\ (Len(sstoi_in.text) = 0 \/ sstoi_in.base < 2 \/ sstoi_in.base > 36))
  => sstoi_out.ec = "invalid_argument" /\ sstoi_out.value = 0

\* the digit loop that ran for the call in progress
DigitLoop ==
  IF sstoi_in.base = 10 THEN "decimal"
  ELSE IF is_pow2(sstoi_in.base) THEN "power of two"
  ELSE "generic"

\* C26: in each sstoi digit loop (decimal, power of two, generic) the
\* magnitude is updated only after both checks passed: no multiplication,
\* shift or addition wraps modulo 2^w, the stored magnitude never exceeds the
\* maximum of the working type, and after a failed check the magnitude is
\* not modified again.
C26_NoWrapInDigitLoops ==
  op \in {"sstoi", "roundtrip"} =>
    /\ sstoi_out.exact <= MaxU(sstoi_in.T.bits)
    /\ sstoi_out.pre_result <= MaxU(sstoi_in.T.bits)
    /\ sstoi_out.pre_result = sstoi_out.held

\* the generic loop stopped at its second check: the product fitted, the
\* digit no longer did
C26_Witness ==
  /\ op = "sstoi"
  /\ DigitLoop = "generic"
  /\ sstoi_out.ec = "result_out_of_range"
  /\ sstoi_out.pre_result > 0
  /\ sstoi_out.pre_result * sstoi_in.base <= MaxU(sstoi_in.T.bits)
  /\ sstoi_out.exact = sstoi_out.pre_result * sstoi_in.base

\* the decimal loop stopped at its first check
DecimalFirstCheckFails ==
  /\ op = "sstoi"
  /\ DigitLoop = "decimal"
  /\ sstoi_out.ec = "result_out_of_range"
  /\ sstoi_out.pre_result > MaxU(sstoi_in.T.bits) \div 10

\* the power-of-two loop stopped at a check
PowerOfTwoCheckFails ==
  /\ op = "sstoi"
  /\ DigitLoop = "power of two"
  /\ sstoi_out.ec = "result_out_of_range"
  /\ sstoi_out.pre_result > 0

----------------------------------------------------------------------------
(* Properties of get_fp_parts *)

\* floor(c * 2^q * 10^p + 1/2)
RoundedScaled(value, p) ==
  IF value.q >= 0 THEN Mul(Shl(Bytes(value.c), value.q), Pow10(p))
  ELSE Shr(Add(Shl(Mul(Bytes(value.c), Pow10(p)), 1), Shl(<<1>>, -value.q)), 1 - value.q)

\* the parts are the round-half-up split of the value at precision p, and
\* no intermediate result was cut to its type
ExactSplit(value, p, parts) ==
  /\ Less(parts.fractional_part, Pow10(p))
  /\ Add(Mul(parts.integer_part, Pow10(p)), parts.fractional_part) = RoundedScaled(value, p)
  /\ ~parts.wrapped

\* C25: for every finite non-negative float or double below 2^64 and every
\* precision p in 0..17, get_fp_parts returns fractional_part < 10^p and
\* integer_part * 10^p + fractional_part = floor(value * 10^p + 1/2), with no
\* intermediate result truncated modulo its 32-, 64- or 128-bit type.
C25_FixedSplit ==
  op = "split" => ExactSplit(split_in.value, split_in.precision, split_out)

\* the split of a double is exact
DoubleSplit ==
  (op = "split" /\ split_in.traits = fp_traits_double)
  => ExactSplit(split_in.value, split_in.precision, split_out)

\* the split of a float is exact below 2^32 at the precisions up to 9
FloatSplit ==
  (/\ op = "split"
   /\ split_in.traits = fp_traits_float
   /\ split_in.value.q + BitLength(split_in.value.c) <= 32
   /\ split_in.precision <= 9)
  => ExactSplit(split_in.value, split_in.precision, split_out)

----------------------------------------------------------------------------
(* Properties of the order of the output *)

\* the first '{' or '}' of the template at or after p, its end if none
NextBrace(p) ==
  IF \E q \in p..Len(fmt) : fmt[q] \in {"{", "}"}
    THEN CHOOSE q \in p..Len(fmt) :
           /\ fmt[q] \in {"{", "}"}
           /\ \A r \in p..(q - 1) : fmt[r] \notin {"{", "}"}
    ELSE Len(fmt) + 1

\* the directive fmt[p..e] is made of an index, nested references and
\* digit runs only: no fill, alignment, sign, '#' or type tag
DigitsOnlyDirective(p, e) ==
  \A q \in (p + 1)..(e - 1) : fmt[q] \in {"{", "}", ":", "."} \/ IsDigitChar(fmt[q])

\* the argument the directive at p names: the number after its '{', or the
\* running automatic index
DirectiveIndex(p) ==
  IF IsDigitChar(fmt[p + 1])
    THEN LET e == CHOOSE q \in (p + 1)..Len(fmt) :
                    /\ ~IsDigitChar(fmt[q])
                    /\ \A r \in (p + 1)..(q - 1) : IsDigitChar(fmt[r])
             RECURSIVE number(_)
             number(q) == IF q = p THEN 0
                          ELSE number(q - 1) * 10 + char_to_digit(fmt[q])
         IN number(e - 1)
    ELSE auto_index

\* x is one rendering of the argument: its text (a string possibly cut
\* short) with spaces around it and nothing else
OneRendering(x, arg) ==
  LET solid == {i \in 1..Len(x) : x[i] # " "}
      core == IF solid = {} THEN <<>>
              ELSE SubSeq(x, CHOOSE i \in solid : \A j \in solid : i <= j,
                             CHOOSE i \in solid : \A j \in solid : i >= j)
      text == PlainText(arg)
  IN IF arg.kind = "str"
       THEN Len(core) <= Len(text) /\ core = SubSeq(text, 1, Len(core))
       ELSE core = text

\* one pass of the loop that does not throw: the cursor moves right; the
\* sink keeps what it held and receives the literal run up to the next
\* brace, then nothing more at the end of the template, the brace of an
\* escape, or one rendering of the one argument of the directive
LeftToRightStep ==
  (pc = "loop" /\ pc' \in {"loop", "done"}) =>
    LET p == NextBrace(ptr)
        run == p - ptr
        x == SubSeq(out', Len(out) + run + 1, Len(out'))
    IN /\ ptr' > ptr
       /\ Len(out') >= Len(out) + run
       /\ SubSeq(out', 1, Len(out)) = out
       /\ SubSeq(out', Len(out) + 1, Len(out) + run) = SubSeq(fmt, ptr, p - 1)
       /\ IF p > Len(fmt) THEN x = <<>> /\ ptr' = p
          ELSE IF p < Len(fmt) /\ fmt[p + 1] = fmt[p] THEN x = <<fmt[p]>> /\ ptr' = p + 2
          ELSE /\ fmt[p] = "{"
               /\ ptr' > p + 1
               /\ fmt[ptr' - 1] = "}"
               /\ DirectiveIndex(p) < Len(fargs)
               /\ (/\ DigitsOnlyDirective(p, ptr' - 1)
                   /\ fargs[DirectiveIndex(p) + 1].kind \in {"int", "str"})
                  => OneRendering(x, fargs[DirectiveIndex(p) + 1])

\* C27: format_to goes through the template from left to right; the output
\* is the concatenation, in the order of the template, of the literal runs
\* and of one rendering per directive; a directive dispatches one argument,
\* once, after its width and precision are resolved, and resolving a nested
\* width or precision appends nothing.
C27_LeftToRight == [][LeftToRightStep]_vars

\* "{}a{}" on (3, -12) has given "3a-12"
C27_Witness ==
  /\ pc = "done"
  /\ fmt = <<"{", "}", "a", "{", "}">>
  /\ fargs = <<ShortArg(3), ShortArg(-12)>>
  /\ out = <<"3", "a", "-", "1", "2">>

\* "{:{}}" on (5, 4): the nested width has put nothing, the owner is alone
NestedAppendsNothing ==
  /\ pc = "done"
  /\ fmt = <<"{", ":", "{", "}", "}">>
  /\ fargs = <<ShortArg(5), ShortArg(4)>>
  /\ out = <<" ", " ", " ", "5">>

----------------------------------------------------------------------------
(* Properties of the fill character *)

\* what parse_format_spec_with_args returns for the bytes of the one
\* directive "{:...}" of the call from position begin on
SpecParsedFrom(begin) ==
  parse_format_spec_with_args(fmt, begin, Len(fmt), fargs, 1, FALSE).spec

\* C28: parsing a spec that starts with a fill character and an alignment
\* character sets only fill and align from those two characters: sign,
\* alternate, width, precision and type are what the rest of the spec
\* gives (the defaults when the rest is empty), whatever the fill
\* character is ('+', '-', ' ', '#', '.', a digit or a letter included).
C28_FillAlignOnly ==
  \A fill \in FillChars, align \in AlignChars, rest \in RestTexts :
    (CallEnded /\ fmt = Directive(<<>>, <<":", fill, align>> \o rest))
      => \E whole \in {SpecParsedFrom(3)}, tail \in {SpecParsedFrom(5)} :
           /\ whole.fill = fill
           /\ whole.align = align
           /\ whole.sign = tail.sign
           /\ whole.alternate = tail.alternate
           /\ whole.width = tail.width
           /\ whole.precision = tail.precision
           /\ whole.type = tail.type

\* the fill and the alignment themselves are always set from the two
\* characters
FillAndAlignSet ==
  \A fill \in FillChars, align \in AlignChars, rest \in RestTexts :
    (CallEnded /\ fmt = Directive(<<>>, <<":", fill, align>> \o rest))
      => \E whole \in {SpecParsedFrom(3)} : whole.fill = fill /\ whole.align = align

\* the fill '-' leaves the other fields to the rest of the spec: the sign
\* it sets is the default one
MinusAsFill ==
  \A align \in AlignChars, rest \in RestTexts :
    (CallEnded /\ fmt = Directive(<<>>, <<":", "-", align>> \o rest))
      => \E whole \in {SpecParsedFrom(3)}, tail \in {SpecParsedFrom(5)} :
           whole = [tail EXCEPT !.fill = "-", !.align = align, !.fmt_beg = 3]

\* "{:x<6}" on 255: the fill is also taken as the type tag, "ffxxxx"
FillTakenAsType ==
  /\ pc = "done"
  /\ fmt = <<"{", ":", "x", "<", "6", "}">>
  /\ fargs = <<ShortArg(255)>>
  /\ out = <<"f", "f", "x", "x", "x", "x">>

\* "{:5<}" on 255: the fill is also taken as the width, "25555"
FillTakenAsWidth ==
  /\ pc = "done"
  /\ fmt = <<"{", ":", "5", "<", "}">>
  /\ fargs = <<ShortArg(255)>>
  /\ out = <<"2", "5", "5", "5", "5">>

----------------------------------------------------------------------------
(* Termination of format_to *)

\* the call runs to its end once entered: the loop of format_to keeps
\* taking its next pass
SpecFmtFair == SpecFmt /\ WF_vars(FormatToIteration)

\* a pass of the loop of format_to moves the cursor to the right or throws
IterationAdvances == pc = "loop" => (ptr' > ptr \/ pc' = "error")

\* the positions begin <= q < end of the spec of the directive the next
\* pass of the loop meets, if it meets one with a spec
SpecPositions ==
  LET p == NextBrace(ptr)
      pe == find_placeholder_end(fmt, p)
      colon == find_colon(fmt, p + 1, pe.placeholder_end - 1)
  IN IF pc = "loop" /\ p <= Len(fmt) /\ fmt[p] = "{" /\ pe.brace_level = 0
       THEN {[begin |-> colon + 1, end |-> pe.placeholder_end - 1, q |-> q]
               : q \in (colon + 1)..(pe.placeholder_end - 2)}
       ELSE {}

\* a pass of the loop of parse_format_spec_with_args, entered at any
\* position of the spec, moves its cursor to the right within the spec or
\* throws
SpecStepAdvances ==
  \A at \in SpecPositions :
    \E st \in {parse_format_spec_step(fmt, at.begin, at.end, fargs, FALSE,
                 spec_state(at.q, format_spec, auto_index, "none"))} :
      st.err # "none" \/ (st.ptr > at.q /\ st.ptr <= at.end)

\* C30: for every template and argument list format_to terminates: every
\* pass of the literal/directive loop and of the loop parsing a format spec
\* moves the cursor forward or raises an error, and the call ends, in
\* completion or in an error.
C30_FormatToTerminates ==
  /\ [][IterationAdvances]_vars
  /\ []SpecStepAdvances
  /\ (pc = "loop" ~> pc \in {"done", "error"})

\* "{:.{}}{}" on three arguments has run through its two directives, the
\* first with a precision parsed from a nested reference
C30_Witness ==
  /\ pc = "done"
  /\ ptr = Len(fmt) + 1
  /\ fmt = <<"{", ":", ".", "{", "}", "}", "{", "}">>
  /\ Len(fargs) = 3

====
